---- MODULE Spec2Model ----
(***************************************************************************)
(* Model of the Delta-Derivatives repository:                              *)
(*   - PhaseLockState / PhaseLockMetrics.compute_phase_error               *)
(*   - PhaseBarrierOption.price and _simulate_phase_path (Monte Carlo)     *)
(*   - the E0..E4 gate pipeline of DeltaDerivativesAudit.run_full_audit    *)
(*   - the twelve audit sub-tests called one by one, and the loop bodies   *)
(*     of the E1, E2, E3 and E4 sub-tests that build or write              *)
(*     PhaseLockState objects; PhaseLockDataGenerator; Greeks delta_phi    *)
(*                                                                         *)
(* Number representation.  The program computes in IEEE doubles; the model *)
(* computes in fixed point with two decimals:                              *)
(*   angles           centidegrees      (18000 = 180 degrees)              *)
(*   K, dt, draws     hundredths        (50 = 0.5)                         *)
(*   payoffs          1/18000           (18000 = payoff 1.0)               *)
(*   price            the exact fraction num/den of payoff units           *)
(*   p-values, rates  thousandths       (50 = 0.05)                        *)
(* NaN is a distinguished value outside every range; every operator that   *)
(* can meet it propagates it the way IEEE arithmetic does.                 *)
(***************************************************************************)
EXTENDS Integers, Sequences, FiniteSets, TLC

VARIABLES
    rng,               \* the process-wide numpy random source: [seed, pos]
    pc,                \* position inside / around PhaseBarrierOption.price
    args,              \* arguments of the current call of price
    rng0,              \* state of the random source when price was entered
    payoffs,           \* price: the local list `payoffs`
    phase_trajectory,  \* price: the local `phase_trajectory` (latest path)
    barrier_hit,       \* price: the local `barrier_hit` (latest path)
    trace,             \* trajectories returned by _simulate_phase_path in this call
    price,             \* value returned by price (fraction num/den)
    calls,             \* completed calls of price, oldest first
    stage,             \* position inside run_full_audit
    gate_log,          \* gates whose run_all has executed, in execution order
    results,           \* run_full_audit: the dict `results`
    audit_report,      \* value returned by run_full_audit
    outcomes,          \* statistic each sub-test computed, by the state of
                       \* the random source at its first draw
    reports,           \* reports returned by run_full_audit, oldest first
    subcalls,          \* sub-tests called on their own: <<name, record>>
    thin,              \* locals of E4 test_integer_thinning
    sym,               \* locals of one iteration of the E2 sub-tests
    heap,              \* PhaseLockState objects of one E1 / E3 / Greeks step
    mm,                \* the LMSRMarketMaker object and the calls made on it
    quote,             \* one call of LockFuture.price or
                       \* EligibilityFailureSwap.price: arguments and outcome
    coarse             \* locals of E4 test_coarse_graining_persistence

vars == <<rng, pc, args, rng0, payoffs, phase_trajectory, barrier_hit, trace,
          price, calls, stage, gate_log, results, audit_report, outcomes,
          reports, subcalls, thin, sym, heap, mm, quote, coarse>>

pboVars == <<rng, pc, args, rng0, payoffs, phase_trajectory, barrier_hit,
             trace, price, calls>>

pricerLocals == <<pc, args, rng0, payoffs, phase_trajectory, barrier_hit,
                  trace, price, calls>>

auditVars == <<stage, gate_log, results, audit_report, outcomes, reports>>

sideVars == <<subcalls, thin, sym, heap>>

deskVars == <<mm, quote, coarse>>

(***************************************************************************)
(* Bounds of the model                                                     *)
(***************************************************************************)
MaxPaths == 2

MaxSteps == 2

StreamLen == 3

MaxRuns == 2

MaxAuditRuns == 2

MaxSamples == 3

MaxSubCalls == 2

MaxOps == 3

(***************************************************************************)
(* Arithmetic helpers                                                      *)
(***************************************************************************)
Abs(x) == IF x < 0 THEN -x ELSE x

Sign(x) == IF x < 0 THEN -1 ELSE IF x > 0 THEN 1 ELSE 0

\* one half turn, 180 degrees, in centidegrees
HalfTurn == 180 * 100

\* IEEE not-a-number, encoded as a value no angle or payoff can take
NaN == 10 * HalfTurn

\* Python's max(0, x): the first argument is kept unless x > 0 holds, and
\* every comparison with NaN is false
PyMax0(x) == IF x # NaN /\ x > 0 THEN x ELSE 0

RECURSIVE SumSeq(_)
SumSeq(s) == IF s = <<>> THEN 0 ELSE Head(s) + SumSeq(Tail(s))

\* np.sqrt on hundredths, result in tenths; NaN for a negative operand
Sqrt(x) ==
    IF x < 0 THEN NaN
    ELSE CHOOSE r \in 0..(x + 1) : r * r <= x /\ (r + 1) * (r + 1) > x

\* np.sin(np.deg2rad(e)) in thousandths, e in centidegrees within half a
\* turn of zero (Bhaskara's rational approximation of the sine)
SinMilli(e) ==
    LET x == Abs(e) \div 100
        s == (4000 * x * (180 - x)) \div (40500 - (x * (180 - x)))
    IN  Sign(e) * s

(***************************************************************************)
(* PhaseLockState and the phase error metric                               *)
(***************************************************************************)
\* dataclass constructor followed by __post_init__
PhaseLockState(f_a, f_b, theta_a, theta_b, p, q, K, Gamma_a, Gamma_b) ==
    [f_a |-> f_a, f_b |-> f_b,
     theta_a |-> theta_a % (2 * HalfTurn),
     theta_b |-> theta_b % (2 * HalfTurn),
     p |-> p, q |-> q, K |-> K,
     Gamma_a |-> Gamma_a, Gamma_b |-> Gamma_b,
     Q_a |-> 100, Q_b |-> 100]

compute_phase_error(state) ==
    LET error == (state.p * state.theta_b - state.q * state.theta_a)
                     % (2 * HalfTurn)
    IN  IF error > HalfTurn THEN error - 2 * HalfTurn ELSE error

(***************************************************************************)
(* The shared random source                                                *)
(***************************************************************************)
\* the values a standard-normal draw takes in the model (hundredths)
Draws == <<-300, 0, 300>>

\* every seed selects one stream of draws; the seeds together select
\* every stream of StreamLen draws over Draws
Seeds == 0..((Len(Draws) ^ StreamLen) - 1)

\* np.random.seed(s)
np_random_seed(s) == [seed |-> s, pos |-> 0]

\* np.random.randn(): the value drawn in state r ...
randn_value(r) ==
    Draws[((r.seed \div (Len(Draws) ^ (r.pos % StreamLen))) % Len(Draws)) + 1]

\* a generator that makes normals in pairs and drops the second
randn_advance_Pairwise(r) == [r EXCEPT !.pos = @ + 2]

\* ... and the state it leaves behind
randn_advance(r) == [r EXCEPT !.pos = @ + 1]

(***************************************************************************)
(* PhaseBarrierOption._simulate_phase_path, one iteration of its loop      *)
(***************************************************************************)
\* noise strength 0.1
sigma == 10

\* drift = -K * sin(deg2rad(e_phi)) * dt * 180 / pi        (centidegrees)
Drift(e_phi, K, dt) ==
    LET m == (((Abs(K * SinMilli(e_phi) * dt)) \div 1000) * 573) \div 1000
    IN  -1 * Sign(K * SinMilli(e_phi) * dt) * m

\* diffusion = sigma * sqrt(dt) * randn() * 180            (centidegrees)
Diffusion(dt, z) ==
    IF Sqrt(dt) = NaN THEN NaN
    ELSE LET v == sigma * Sqrt(dt) * z * 180
         IN  Sign(v) * (Abs(v) \div 1000)

\* Wrap with the shift by half a turn forgotten: e_phi % 360
Wrap_NoShift(x) == x % (2 * HalfTurn)

\* ((e_phi + 180) % 360) - 180
Wrap(x) == ((x + HalfTurn) % (2 * HalfTurn)) - HalfTurn

SimStep(e_phi, K, dt, z) ==
    IF e_phi = NaN \/ Diffusion(dt, z) = NaN THEN NaN
    ELSE Wrap(e_phi + Drift(e_phi, K, dt) + Diffusion(dt, z))

(***************************************************************************)
(* PhaseBarrierOption.price, the pieces of one loop iteration              *)
(***************************************************************************)
\* np.any(np.abs(phase_trajectory) <= phi_barrier)
RECURSIVE NpAny(_)
NpAny(mask) == IF mask = <<>> THEN FALSE ELSE Head(mask) \/ NpAny(Tail(mask))

\* BarrierHit with a strict comparison
BarrierHit_Strict(trajectory, phi_barrier) ==
    NpAny([i \in DOMAIN trajectory |->
              trajectory[i] # NaN /\ Abs(trajectory[i]) < phi_barrier])

\* BarrierHit looking at the simulated points only, not at the initial one
BarrierHit_SkipInitial(trajectory, phi_barrier) ==
    NpAny([i \in DOMAIN Tail(trajectory) |->
              Tail(trajectory)[i] # NaN
                  /\ Abs(Tail(trajectory)[i]) <= phi_barrier])

BarrierHit(trajectory, phi_barrier) ==
    NpAny([i \in DOMAIN trajectory |->
              trajectory[i] # NaN /\ Abs(trajectory[i]) <= phi_barrier])

\* Payoff with abs() forgotten: max(0, 1.0 - e_phi_final / 180.0)
Payoff_NoAbs(trajectory, hit) ==
    IF hit
    THEN LET e_phi_final == trajectory[Len(trajectory)]
         IN  IF e_phi_final = NaN THEN 0
             ELSE PyMax0(HalfTurn - e_phi_final)
    ELSE 0

\* Payoff read from the first point of the trajectory instead of the last
Payoff_FirstPoint(trajectory, hit) ==
    IF hit
    THEN LET e_phi_final == trajectory[1]
         IN  IF e_phi_final = NaN THEN 0
             ELSE PyMax0(HalfTurn - Abs(e_phi_final))
    ELSE 0

\* max(0, 1.0 - abs(e_phi_final) / 180.0) on knock-in, else 0.0
\* (payoff units of 1/18000)
Payoff(trajectory, hit) ==
    IF hit
    THEN LET e_phi_final == trajectory[Len(trajectory)]
         IN  IF e_phi_final = NaN THEN 0
             ELSE PyMax0(HalfTurn - Abs(e_phi_final))
    ELSE 0

\* mean with the divisor n - 1 of a sample variance
NpMean_Ddof(xs) == [num |-> SumSeq(xs), den |-> Len(xs) - 1]

\* np.mean(payoffs): the exact fraction; 0/0 is numpy's nan for an empty list
NpMean(xs) == [num |-> SumSeq(xs), den |-> Len(xs)]

(***************************************************************************)
(* Inputs of the pricer                                                    *)
(***************************************************************************)
\* (theta_a, theta_b, p, q, K) of the states priced; the other fields are
\* not read by the barrier pricer and take one value
InputStates ==
    { PhaseLockState(200, 200, t[1], t[2], t[3], t[4], t[5], 3, 3) :
        t \in { <<0, 1000, 1, 1, 50>>,        \* phase error 10 degrees
                <<1000, 19000, 1, 1, 50>>,    \* phase error 180 degrees
                <<10000, 3000, 2, 1, 20>>,    \* phase error -40 degrees
                <<0, 2080, 1, 1, 0>>,         \* phase error 20.8 degrees, K = 0
                <<0, 9000, 1, 1, 2000>> } }   \* phase error 90 degrees, K = 20

Barriers == {1000, 9000}

TimesToExpiry == {100, 200}

PathCounts == -1..MaxPaths

StepCounts == -1..MaxSteps

StepSizes == {-1, 0, 4, 100}

NoCall ==
    [state |-> PhaseLockState(0, 0, 0, 0, 1, 1, 0, 0, 0), phi_barrier |-> 0,
     time_to_expiry |-> 0, n_paths |-> 0, n_steps |-> 0, dt |-> 0]

NoPrice == [num |-> 0, den |-> 1]

(***************************************************************************)
(* Actions of the pricer and of its caller                                 *)
(***************************************************************************)
\* the caller reseeds the shared source between two calls: with the seed
\* of the previous call or with the next one
Reseed ==
    /\ pc = "idle"
    /\ Len(calls) >= 1
    /\ Len(calls) < MaxRuns
    /\ \E s \in {rng0.seed, (rng0.seed + 1) % Cardinality(Seeds)} :
          rng' = np_random_seed(s)
    /\ UNCHANGED <<pc, args, rng0, payoffs, phase_trajectory, barrier_hit,
                   trace, price, calls>>
    /\ UNCHANGED auditVars
    /\ UNCHANGED sideVars
    /\ UNCHANGED deskVars

\* entry of price: bind the arguments, payoffs = []
CallPrice ==
    /\ pc = "idle"
    /\ Len(calls) < MaxRuns
    /\ IF calls = <<>>
       THEN \E st \in InputStates, b \in Barriers, t \in TimesToExpiry,
               np \in PathCounts, ns \in StepCounts, d \in StepSizes :
               args' = [state |-> st, phi_barrier |-> b, time_to_expiry |-> t,
                        n_paths |-> np, n_steps |-> ns, dt |-> d]
       ELSE \E t \in TimesToExpiry : args' = [args EXCEPT !.time_to_expiry = t]
    /\ rng0' = rng
    /\ payoffs' = <<>>
    /\ trace' = <<>>
    /\ phase_trajectory' = <<>>
    /\ barrier_hit' = FALSE
    /\ pc' = "loop"
    /\ UNCHANGED <<rng, price, calls>>
    /\ UNCHANGED auditVars
    /\ UNCHANGED sideVars
    /\ UNCHANGED deskVars

\* top of `for _ in range(n_paths)` with another path to simulate:
\* e_phi_initial and the first lines of _simulate_phase_path
BeginPath ==
    /\ pc = "loop"
    /\ Len(payoffs) < args.n_paths
    /\ phase_trajectory' = <<compute_phase_error(args.state)>>
    /\ pc' = "sim"
    /\ UNCHANGED <<rng, args, rng0, payoffs, barrier_hit, trace, price, calls>>
    /\ UNCHANGED auditVars
    /\ UNCHANGED sideVars
    /\ UNCHANGED deskVars

\* StepPath drawing from a generator of its own, which np.random.seed
\* does not reach
StepPath_OwnGenerator ==
    /\ pc = "sim"
    /\ Len(phase_trajectory) - 1 < args.n_steps
    /\ \E k \in DOMAIN Draws :
          phase_trajectory' =
              Append(phase_trajectory,
                     SimStep(phase_trajectory[Len(phase_trajectory)],
                             args.state.K, args.dt, Draws[k]))
    /\ rng' = randn_advance(rng)
    /\ UNCHANGED <<pc, args, rng0, payoffs, barrier_hit, trace, price, calls>>
    /\ UNCHANGED auditVars
    /\ UNCHANGED sideVars
    /\ UNCHANGED deskVars

\* one iteration of `for _ in range(n_steps)` in _simulate_phase_path
StepPath ==
    /\ pc = "sim"
    /\ Len(phase_trajectory) - 1 < args.n_steps
    /\ phase_trajectory' =
          Append(phase_trajectory,
                 SimStep(phase_trajectory[Len(phase_trajectory)],
                         args.state.K, args.dt, randn_value(rng)))
    /\ rng' = randn_advance(rng)
    /\ UNCHANGED <<pc, args, rng0, payoffs, barrier_hit, trace, price, calls>>
    /\ UNCHANGED auditVars
    /\ UNCHANGED sideVars
    /\ UNCHANGED deskVars

\* EndPath keeping the simulated points only, without the initial value
EndPath_DropInitial ==
    /\ pc = "sim"
    /\ Len(phase_trajectory) - 1 >= args.n_steps
    /\ barrier_hit' = BarrierHit(phase_trajectory, args.phi_barrier)
    /\ payoffs' = Append(payoffs, Payoff(phase_trajectory, barrier_hit'))
    /\ trace' = Append(trace, Tail(phase_trajectory))
    /\ pc' = "loop"
    /\ UNCHANGED <<rng, args, rng0, phase_trajectory, price, calls>>
    /\ UNCHANGED auditVars
    /\ UNCHANGED sideVars
    /\ UNCHANGED deskVars

\* _simulate_phase_path returns; barrier check, payoff, payoffs.append
EndPath ==
    /\ pc = "sim"
    /\ Len(phase_trajectory) - 1 >= args.n_steps
    /\ barrier_hit' = BarrierHit(phase_trajectory, args.phi_barrier)
    /\ payoffs' = Append(payoffs, Payoff(phase_trajectory, barrier_hit'))
    /\ trace' = Append(trace, phase_trajectory)
    /\ pc' = "loop"
    /\ UNCHANGED <<rng, args, rng0, phase_trajectory, price, calls>>
    /\ UNCHANGED auditVars
    /\ UNCHANGED sideVars
    /\ UNCHANGED deskVars

\* ReturnPrice discounting the mean over the time to expiry
ReturnPrice_Discounted ==
    /\ pc = "loop"
    /\ Len(payoffs) >= args.n_paths
    /\ price' = [num |-> NpMean(payoffs).num * 100,
                 den |-> NpMean(payoffs).den * args.time_to_expiry]
    /\ calls' = Append(calls, [rng0 |-> rng0, args |-> args, trace |-> trace,
                               price |-> price', rng1 |-> rng])
    /\ pc' = "done"
    /\ UNCHANGED <<rng, args, rng0, payoffs, phase_trajectory, barrier_hit, trace>>
    /\ UNCHANGED auditVars
    /\ UNCHANGED sideVars
    /\ UNCHANGED deskVars

\* the loop is exhausted: return np.mean(payoffs)
ReturnPrice ==
    /\ pc = "loop"
    /\ Len(payoffs) >= args.n_paths
    /\ price' = NpMean(payoffs)
    /\ calls' = Append(calls, [rng0 |-> rng0, args |-> args, trace |-> trace,
                               price |-> price', rng1 |-> rng])
    /\ pc' = "done"
    /\ UNCHANGED <<rng, args, rng0, payoffs, phase_trajectory, barrier_hit, trace>>
    /\ UNCHANGED auditVars
    /\ UNCHANGED sideVars
    /\ UNCHANGED deskVars

\* the caller takes the result and is ready for another call
Resume ==
    /\ pc = "done"
    /\ Len(calls) < MaxRuns
    /\ pc' = "idle"
    /\ UNCHANGED <<rng, args, rng0, payoffs, phase_trajectory, barrier_hit,
                   trace, price, calls>>
    /\ UNCHANGED auditVars
    /\ UNCHANGED sideVars
    /\ UNCHANGED deskVars

InitAuditIdle ==
    /\ stage = "NotStarted"
    /\ gate_log = <<>>
    /\ results = <<>>
    /\ audit_report = <<>>
    /\ outcomes = <<>>
    /\ reports = <<>>

InitSideIdle ==
    /\ subcalls = <<>>
    /\ thin = [pc |-> "idle"]
    /\ sym = [pc |-> "idle"]
    /\ heap = [pc |-> "idle"]

InitDeskIdle ==
    /\ mm = [pc |-> "idle"]
    /\ quote = [pc |-> "idle"]
    /\ coarse = [pc |-> "idle"]

InitPricerIdle ==
    /\ pc = "idle"
    /\ args = NoCall
    /\ rng0 = np_random_seed(0)
    /\ payoffs = <<>>
    /\ phase_trajectory = <<>>
    /\ barrier_hit = FALSE
    /\ trace = <<>>
    /\ price = NoPrice
    /\ calls = <<>>

InitPBO ==
    /\ rng \in {np_random_seed(s) : s \in Seeds}
    /\ pc = "idle"
    /\ args = NoCall
    /\ rng0 = np_random_seed(0)
    /\ payoffs = <<>>
    /\ phase_trajectory = <<>>
    /\ barrier_hit = FALSE
    /\ trace = <<>>
    /\ price = NoPrice
    /\ calls = <<>>
    /\ InitAuditIdle
    /\ InitSideIdle
    /\ InitDeskIdle

NextPBO ==
    \/ Reseed
    \/ CallPrice
    \/ BeginPath
    \/ StepPath
    \/ EndPath
    \/ ReturnPrice
    \/ Resume

SpecPBO == InitPBO /\ [][NextPBO]_vars

(***************************************************************************)
(* The audit gates.  A sub-test generates a population, reduces it to a    *)
(* statistic with numpy/scipy and compares the statistic with a threshold. *)
(* The statistic is the input of the model (thousandths); the comparison   *)
(* and the result record are the code's.                                   *)
(***************************************************************************)
\* E0_Calibration.test_lock_future_null
test_lock_future_null(p_value) ==
    [test |-> "E0_LockFuture_Null", p_value |-> p_value,
     passed |-> p_value > 50,
     notes |-> IF p_value > 50 THEN "Random states should give fair odds"
               ELSE "Systematic bias detected"]

\* E0_Calibration.test_phase_barrier_null
test_phase_barrier_null(mean_price) ==
    [test |-> "E0_PhaseBarrier_Null", mean_price |-> mean_price,
     passed |-> mean_price < 300,
     notes |-> IF mean_price < 300 THEN "Random states rarely hit tight barrier"
               ELSE "Too many barrier hits"]

\* E0_Calibration.test_eligibility_failure_null
test_eligibility_failure_null(mean_risk) ==
    [test |-> "E0_EligibilityFailure_Null", mean_risk |-> mean_risk,
     passed |-> 100 < mean_risk /\ mean_risk < 700,
     notes |-> IF 100 < mean_risk /\ mean_risk < 700
               THEN "Null states have moderate risk" ELSE "Risk out of range"]

\* E1_Vibration.test_amplitude_mute_lock_strength
test_amplitude_mute_lock_strength(p_before, p_after) ==
    [test |-> "E1_AmplitudeMute_PhaseStructure",
     p_value_before_mute |-> p_before, p_value_after_mute |-> p_after,
     passed |-> p_after < 10,
     notes |-> IF p_after < 10 THEN "Phase structure survives amplitude mute"
               ELSE "Signal lost after muting coupling strength"]

\* E1_Vibration.test_frequency_structure_persistence
test_frequency_structure_persistence(p_value) ==
    [test |-> "E1_FrequencyStructure_Persistence", p_value |-> p_value,
     passed |-> p_value < 10,
     notes |-> IF p_value < 10
               THEN "Frequency structure independent of coupling amplitude"
               ELSE "Frequency structure depends on K"]

\* E2_Symmetry.test_agent_permutation_invariance
test_agent_permutation_invariance(agreement_count, n_samples) ==
    LET agreement_rate == (agreement_count * 1000) \div n_samples
    IN  [test |-> "E2_Permutation_Invariance",
         agreement_rate |-> agreement_rate,
         passed |-> agreement_rate > 950,
         notes |-> IF agreement_rate > 950 THEN "permutation invariant"
                   ELSE "agreement after swap too low"]

\* E2_Symmetry.test_gauge_invariance_phase_offset
test_gauge_invariance_phase_offset(agreement_count, n_samples) ==
    LET agreement_rate == (agreement_count * 1000) \div n_samples
    IN  [test |-> "E2_Gauge_Invariance",
         agreement_rate |-> agreement_rate,
         passed |-> agreement_rate > 950,
         notes |-> IF agreement_rate > 950 THEN "gauge invariant"
                   ELSE "not invariant to phase offset"]

\* E3_Causal.test_phase_nudge_causality
test_phase_nudge_causality(p_toward, p_away) ==
    [test |-> "E3_PhaseNudge_Causality",
     p_value_toward_vs_sham |-> p_toward, p_value_away_vs_sham |-> p_away,
     passed |-> p_toward < 10 /\ p_away < 10,
     notes |-> IF p_toward < 10 /\ p_away < 10 THEN "Causal"
               ELSE "No causal effect detected"]

\* E3_Causal.test_coupling_nudge_causality
test_coupling_nudge_causality(p_inc, p_dec) ==
    [test |-> "E3_CouplingNudge_Causality",
     p_value_increase |-> p_inc, p_value_decrease |-> p_dec,
     passed |-> p_inc < 10 /\ p_dec < 10,
     notes |-> IF p_inc < 10 /\ p_dec < 10 THEN "Causal"
               ELSE "K nudges dont produce predicted effects"]

\* E4_RGPersistence.test_integer_thinning
test_integer_thinning(mean_K_low, mean_K_mid, mean_K_high) ==
    [test |-> "E4_IntegerThinning",
     mean_K_low_order |-> mean_K_low, mean_K_mid_order |-> mean_K_mid,
     mean_K_high_order |-> mean_K_high,
     passed |-> mean_K_low > mean_K_mid /\ mean_K_mid > mean_K_high,
     notes |-> IF mean_K_low > mean_K_mid /\ mean_K_mid > mean_K_high
               THEN "Low-order wins" ELSE "Integer-thinning violated"]

\* E4_RGPersistence.test_coarse_graining_persistence
test_coarse_graining_persistence(persistence_count, n_samples) ==
    LET persistence_rate == (persistence_count * 1000) \div n_samples
    IN  [test |-> "E4_CoarseGraining_Persistence",
         persistence_rate |-> persistence_rate,
         passed |-> persistence_rate > 800,
         notes |-> IF persistence_rate > 800 THEN "persist after x2 pooling"
                   ELSE "too few survive coarse-graining"]

\* E4_RGPersistence.test_brittleness_stability
test_brittleness_stability(zeta_increase_count, n_samples) ==
    LET stability_rate == 1000 - ((zeta_increase_count * 1000) \div n_samples)
    IN  [test |-> "E4_Brittleness_Stability",
         stability_rate |-> stability_rate,
         passed |-> stability_rate > 850,
         notes |-> IF stability_rate > 850 THEN "remain stable"
                   ELSE "become brittle at coarser scale"]

\* any() in place of all()
AllPassed_Any(subresults) == \E name \in DOMAIN subresults : subresults[name].passed

\* all(r['passed'] for r in results.values())
AllPassed(subresults) == \A name \in DOMAIN subresults : subresults[name].passed

\* the dict returned by every run_all
GateReport(gate, subresults) ==
    [gate |-> gate, passed |-> AllPassed(subresults), results |-> subresults]

\* statistics the sub-tests can come out with: values on both sides of,
\* and on, each threshold
PValues05 == {50, 51}

PValues01 == {9, 10}

MeanPrices == {299, 300}

MeanRisks == {100, 101, 700}

AgreementCounts == {190, 191}

MeanKs == {<<30, 20, 0>>, <<20, 30, 0>>, <<30, 20, 20>>}

PersistenceCounts == {160, 161}

ZetaIncreaseCounts == {29, 30}

\* default n_samples of the E2 and E4 rate sub-tests
n_samples_rate == 200

(***************************************************************************)
(* DeltaDerivativesAudit.run_full_audit                                    *)
(***************************************************************************)
\* sum(1 for r in results.values() if r['passed'])
CountPasses(res) == Cardinality({k \in DOMAIN res : res[k].passed})

\* the ladder with its first rung one too short
Classification_Shifted(passes) ==
    IF passes < 2 THEN "PROBE"
    ELSE IF passes = 3 THEN "PRIMITIVE"
    ELSE "LAW"

\* the decision ladder
Classification(passes) ==
    IF passes <= 2 THEN "PROBE"
    ELSE IF passes = 3 THEN "PRIMITIVE"
    ELSE "LAW"

Rights(passes) ==
    IF passes <= 2 THEN "Explore freely, no public claims"
    ELSE IF passes = 3 THEN "Report findings with caveats, no causality claims"
    ELSE "Make predictions, ship with PCO documentation"

\* pd.Timestamp.now().isoformat()
Timestamps == {"2025-01-01T00:00:00", "2025-01-01T00:00:01"}

\* the random source as the last sub-test of a gate leaves it: the last
\* np.random.seed argument and the number of draws made since
Residual(last_seed, draws) == [seed |-> last_seed, pos |-> draws]

DefaultSeed == 42

\* the sub-test entered in state r of the random source and not seeding it
FirstDraw_Unseeded(r, seed) == r

\* the sub-test seeding the random source only when it finds it fresh
FirstDraw_SeedIfFresh(r, seed) ==
    IF r.pos = 0 THEN np_random_seed(seed) ELSE r

\* np.random.seed(seed), the first statement of every sub-test: the state
\* of the random source at the first draw of a sub-test entered in state r
FirstDraw(r, seed) == np_random_seed(seed)

\* n draws taken from the random source
Consume(r, n) == [r EXCEPT !.pos = @ + n]

\* A sub-test is a deterministic computation on the draws it takes: what
\* it computed from one state of the random source it computes again
Recall(test, r, v) ==
    <<test, r>> \in DOMAIN outcomes => outcomes[<<test, r>>] = v

Learn(test, r, v) == (<<test, r>> :> v)

\* RunE0 going straight to the aggregation when the gate did not pass
RunE0_HaltOnFail ==
    /\ stage = "E0_Calibration"
    /\ LET lf == FirstDraw(rng, DefaultSeed)
           pbo == FirstDraw(Consume(lf, 1000 * 9), DefaultSeed)
           efs == FirstDraw(Consume(pbo, 500 * (9 + (500 * 100))), DefaultSeed)
       IN  /\ \E p \in PValues05, m \in MeanPrices, r \in MeanRisks :
                /\ Recall("LF", lf, <<p>>)
                /\ Recall("PBO", pbo, <<m>>)
                /\ Recall("EFS", efs, <<r>>)
                /\ results' = results @@ ("E0" :>
                      GateReport("E0_Calibration",
                          [LF |-> test_lock_future_null(p),
                           PBO |-> test_phase_barrier_null(m),
                           EFS |-> test_eligibility_failure_null(r)]))
                /\ outcomes' = outcomes @@ Learn("LF", lf, <<p>>)
                                  @@ Learn("PBO", pbo, <<m>>)
                                  @@ Learn("EFS", efs, <<r>>)
           /\ rng' = Consume(efs, 1000 * 9)
    /\ gate_log' = Append(gate_log, "E0_Calibration")
    /\ stage' = IF results'["E0"].passed THEN "E1_Vibration" ELSE "Aggregate"
    /\ UNCHANGED <<pc, args, rng0, payoffs, phase_trajectory, barrier_hit,
                   trace, price, calls, audit_report, reports>>
    /\ UNCHANGED sideVars
    /\ UNCHANGED deskVars

\* results['E0'] = E0_Calibration.run_all(): the three sub-tests draw their
\* states (9 draws each) from the source they seeded; the barrier test
\* also draws its 500 x 100 path steps per state
RunE0 ==
    /\ stage = "E0_Calibration"
    /\ LET lf == FirstDraw(rng, DefaultSeed)
           pbo == FirstDraw(Consume(lf, 1000 * 9), DefaultSeed)
           efs == FirstDraw(Consume(pbo, 500 * (9 + (500 * 100))), DefaultSeed)
       IN  /\ \E p \in PValues05, m \in MeanPrices, r \in MeanRisks :
                /\ Recall("LF", lf, <<p>>)
                /\ Recall("PBO", pbo, <<m>>)
                /\ Recall("EFS", efs, <<r>>)
                /\ results' = results @@ ("E0" :>
                      GateReport("E0_Calibration",
                          [LF |-> test_lock_future_null(p),
                           PBO |-> test_phase_barrier_null(m),
                           EFS |-> test_eligibility_failure_null(r)]))
                /\ outcomes' = outcomes @@ Learn("LF", lf, <<p>>)
                                  @@ Learn("PBO", pbo, <<m>>)
                                  @@ Learn("EFS", efs, <<r>>)
           /\ rng' = Consume(efs, 1000 * 9)
    /\ gate_log' = Append(gate_log, "E0_Calibration")
    /\ stage' = "E1_Vibration"
    /\ UNCHANGED <<pc, args, rng0, payoffs, phase_trajectory, barrier_hit,
                   trace, price, calls, audit_report, reports>>
    /\ UNCHANGED sideVars
    /\ UNCHANGED deskVars

\* results['E1'] = E1_Vibration.run_all(): both sub-tests end with
\* generate_unlocked_state(seed=seed+n_samples+249), 9 draws
RunE1 ==
    /\ stage = "E1_Vibration"
    /\ LET ps == FirstDraw(rng, DefaultSeed)
           fs == FirstDraw(Residual(DefaultSeed + 500 + 249, 9), DefaultSeed)
       IN  \E pb \in PValues01, pa \in PValues01, pf \in PValues01 :
                /\ Recall("PhaseStructure", ps, <<pb, pa>>)
                /\ Recall("FrequencyStructure", fs, <<pf>>)
                /\ results' = results @@ ("E1" :>
                      GateReport("E1_Vibration",
                          [PhaseStructure |->
                               test_amplitude_mute_lock_strength(pb, pa),
                           FrequencyStructure |->
                               test_frequency_structure_persistence(pf)]))
                /\ outcomes' = outcomes @@ Learn("PhaseStructure", ps, <<pb, pa>>)
                                  @@ Learn("FrequencyStructure", fs, <<pf>>)
    /\ gate_log' = Append(gate_log, "E1_Vibration")
    /\ rng' = Residual(DefaultSeed + 500 + 249, 9)
    /\ stage' = "E2_Symmetry"
    /\ UNCHANGED <<pc, args, rng0, payoffs, phase_trajectory, barrier_hit,
                   trace, price, calls, audit_report, reports>>
    /\ UNCHANGED sideVars
    /\ UNCHANGED deskVars

\* results['E2'] = E2_Symmetry.run_all(): the last state of either sub-test
\* is generate_locked_state(seed=seed+199), 8 draws; the gauge test then
\* draws its offset
RunE2 ==
    /\ stage = "E2_Symmetry"
    /\ LET pe == FirstDraw(rng, DefaultSeed)
           ga == FirstDraw(Residual(DefaultSeed + 199, 8), DefaultSeed)
       IN  \E cp \in AgreementCounts, cg \in AgreementCounts :
                /\ Recall("Permutation", pe, <<cp>>)
                /\ Recall("Gauge", ga, <<cg>>)
                /\ results' = results @@ ("E2" :>
                      GateReport("E2_Symmetry",
                          [Permutation |->
                               test_agent_permutation_invariance(cp,
                                                                 n_samples_rate),
                           Gauge |->
                               test_gauge_invariance_phase_offset(cg,
                                                                  n_samples_rate)]))
                /\ outcomes' = outcomes @@ Learn("Permutation", pe, <<cp>>)
                                  @@ Learn("Gauge", ga, <<cg>>)
    /\ gate_log' = Append(gate_log, "E2_Symmetry")
    /\ rng' = Residual(DefaultSeed + 199, 9)
    /\ stage' = "E3_Causal"
    /\ UNCHANGED <<pc, args, rng0, payoffs, phase_trajectory, barrier_hit,
                   trace, price, calls, audit_report, reports>>
    /\ UNCHANGED sideVars
    /\ UNCHANGED deskVars

\* results['E3'] = E3_Causal.run_all(): the last state of either sub-test
\* is generate_locked_state(seed=seed+239), 8 draws; the phase nudge test
\* then draws its sham direction
RunE3 ==
    /\ stage = "E3_Causal"
    /\ LET pn == FirstDraw(rng, DefaultSeed)
           cn == FirstDraw(Residual(DefaultSeed + 239, 9), DefaultSeed)
       IN  \E pt \in PValues01, pa \in PValues01, pi \in PValues01,
              pd \in PValues01 :
                /\ Recall("PhaseNudge", pn, <<pt, pa>>)
                /\ Recall("CouplingNudge", cn, <<pi, pd>>)
                /\ results' = results @@ ("E3" :>
                      GateReport("E3_Causal",
                          [PhaseNudge |-> test_phase_nudge_causality(pt, pa),
                           CouplingNudge |->
                               test_coupling_nudge_causality(pi, pd)]))
                /\ outcomes' = outcomes @@ Learn("PhaseNudge", pn, <<pt, pa>>)
                                  @@ Learn("CouplingNudge", cn, <<pi, pd>>)
    /\ gate_log' = Append(gate_log, "E3_Causal")
    /\ rng' = Residual(DefaultSeed + 239, 8)
    /\ stage' = "E4_RGPersistence"
    /\ UNCHANGED <<pc, args, rng0, payoffs, phase_trajectory, barrier_hit,
                   trace, price, calls, audit_report, reports>>
    /\ UNCHANGED sideVars
    /\ UNCHANGED deskVars

\* results['E4'] = E4_RGPersistence.run_all(): the thinning test ends with
\* generate_locked_state(seed=seed+499), the other two with seed+199; the
\* coarse-graining test then draws 10 x 2 noises
RunE4 ==
    /\ stage = "E4_RGPersistence"
    /\ LET it == FirstDraw(rng, DefaultSeed)
           cg == FirstDraw(Residual(DefaultSeed + 499, 8), DefaultSeed)
           br == FirstDraw(Residual(DefaultSeed + 199, 8 + (10 * 2)),
                           DefaultSeed)
       IN  \E k \in MeanKs, c \in PersistenceCounts,
              z \in ZetaIncreaseCounts :
                /\ Recall("IntegerThinning", it, k)
                /\ Recall("CoarseGraining", cg, <<c>>)
                /\ Recall("Brittleness", br, <<z>>)
                /\ results' = results @@ ("E4" :>
                      GateReport("E4_RGPersistence",
                          [IntegerThinning |->
                               test_integer_thinning(k[1], k[2], k[3]),
                           CoarseGraining |->
                               test_coarse_graining_persistence(c,
                                                                n_samples_rate),
                           Brittleness |->
                               test_brittleness_stability(z, n_samples_rate)]))
                /\ outcomes' = outcomes @@ Learn("IntegerThinning", it, k)
                                  @@ Learn("CoarseGraining", cg, <<c>>)
                                  @@ Learn("Brittleness", br, <<z>>)
    /\ gate_log' = Append(gate_log, "E4_RGPersistence")
    /\ rng' = Residual(DefaultSeed + 199, 8)
    /\ stage' = "Aggregate"
    /\ UNCHANGED <<pc, args, rng0, payoffs, phase_trajectory, barrier_hit,
                   trace, price, calls, audit_report, reports>>
    /\ UNCHANGED sideVars
    /\ UNCHANGED deskVars

\* Aggregate reporting the gates that passed only
Aggregate_PassedGatesOnly ==
    /\ stage = "Aggregate"
    /\ \E now \in Timestamps :
          audit_report' =
              [timestamp |-> now,
               gates_passed |-> CountPasses(results),
               classification |-> Classification(CountPasses(results)),
               results |-> [k \in {g \in DOMAIN results : results[g].passed}
                               |-> results[k]],
               recommendation |-> Rights(CountPasses(results))]
    /\ reports' = Append(reports, audit_report')
    /\ stage' = "Returned"
    /\ UNCHANGED <<rng, pc, args, rng0, payoffs, phase_trajectory, barrier_hit,
                   trace, price, calls, gate_log, results, outcomes>>
    /\ UNCHANGED sideVars
    /\ UNCHANGED deskVars

\* count the passes, classify, build and return the report
Aggregate ==
    /\ stage = "Aggregate"
    /\ \E now \in Timestamps :
          audit_report' =
              [timestamp |-> now,
               gates_passed |-> CountPasses(results),
               classification |-> Classification(CountPasses(results)),
               results |-> results,
               recommendation |-> Rights(CountPasses(results))]
    /\ reports' = Append(reports, audit_report')
    /\ stage' = "Returned"
    /\ UNCHANGED <<rng, pc, args, rng0, payoffs, phase_trajectory, barrier_hit,
                   trace, price, calls, gate_log, results, outcomes>>
    /\ UNCHANGED sideVars
    /\ UNCHANGED deskVars

InitAudit ==
    /\ rng \in {np_random_seed(s) : s \in Seeds}
    /\ pc = "idle"
    /\ args = NoCall
    /\ rng0 = np_random_seed(0)
    /\ payoffs = <<>>
    /\ phase_trajectory = <<>>
    /\ barrier_hit = FALSE
    /\ trace = <<>>
    /\ price = NoPrice
    /\ calls = <<>>
    /\ stage = "E0_Calibration"
    /\ gate_log = <<>>
    /\ results = <<>>
    /\ audit_report = <<>>
    /\ outcomes = <<>>
    /\ reports = <<>>
    /\ InitSideIdle
    /\ InitDeskIdle

NextAudit ==
    \/ RunE0
    \/ RunE1
    \/ RunE2
    \/ RunE3
    \/ RunE4
    \/ Aggregate

SpecAudit == InitAudit /\ [][NextAudit]_vars

\* the audit is one synchronous call: it runs to completion
SpecAuditFair == SpecAudit /\ WF_vars(NextAudit)

\* run_full_audit called again by the same process: whatever ran in between
\* left the random source as the audit left it, or seeded it
StartAudit ==
    /\ stage = "Returned"
    /\ Len(reports) < MaxAuditRuns
    /\ \E r \in {rng, np_random_seed(0)} : rng' = r
    /\ stage' = "E0_Calibration"
    /\ gate_log' = <<>>
    /\ results' = <<>>
    /\ UNCHANGED <<pc, args, rng0, payoffs, phase_trajectory, barrier_hit,
                   trace, price, calls, audit_report, outcomes, reports>>
    /\ UNCHANGED sideVars
    /\ UNCHANGED deskVars

NextAuditRuns ==
    \/ NextAudit
    \/ StartAudit

\* the first call finds the random source freshly seeded with either of
\* two seeds
InitAuditRuns ==
    /\ InitAudit
    /\ rng.seed \in {0, 1}

SpecAuditRuns == InitAuditRuns /\ [][NextAuditRuns]_vars

(***************************************************************************)
(* The twelve sub-tests called one by one: they are static methods, and    *)
(* each run_all calls them in turn.  Any of them may be called after any   *)
(* other, and a pricer may run in between.                                 *)
(***************************************************************************)
SubTestNames ==
    {"LF", "PBO", "EFS", "PhaseStructure", "FrequencyStructure",
     "Permutation", "Gauge", "PhaseNudge", "CouplingNudge",
     "IntegerThinning", "CoarseGraining", "Brittleness"}

\* the statistics a sub-test can come out with
Statistics(t) ==
    CASE t = "LF" -> {<<p>> : p \in PValues05}
      [] t = "PBO" -> {<<m>> : m \in MeanPrices}
      [] t = "EFS" -> {<<r>> : r \in MeanRisks}
      [] t = "PhaseStructure" -> PValues01 \X PValues01
      [] t = "FrequencyStructure" -> {<<pf>> : pf \in PValues01}
      [] t = "Permutation" -> {<<c>> : c \in AgreementCounts}
      [] t = "Gauge" -> {<<c>> : c \in AgreementCounts}
      [] t = "PhaseNudge" -> PValues01 \X PValues01
      [] t = "CouplingNudge" -> PValues01 \X PValues01
      [] t = "IntegerThinning" -> MeanKs
      [] t = "CoarseGraining" -> {<<c>> : c \in PersistenceCounts}
      [] t = "Brittleness" -> {<<z>> : z \in ZetaIncreaseCounts}

\* the record the sub-test returns for a statistic
SubTestResult(t, v) ==
    CASE t = "LF" -> test_lock_future_null(v[1])
      [] t = "PBO" -> test_phase_barrier_null(v[1])
      [] t = "EFS" -> test_eligibility_failure_null(v[1])
      [] t = "PhaseStructure" -> test_amplitude_mute_lock_strength(v[1], v[2])
      [] t = "FrequencyStructure" -> test_frequency_structure_persistence(v[1])
      [] t = "Permutation" ->
             test_agent_permutation_invariance(v[1], n_samples_rate)
      [] t = "Gauge" ->
             test_gauge_invariance_phase_offset(v[1], n_samples_rate)
      [] t = "PhaseNudge" -> test_phase_nudge_causality(v[1], v[2])
      [] t = "CouplingNudge" -> test_coupling_nudge_causality(v[1], v[2])
      [] t = "IntegerThinning" -> test_integer_thinning(v[1], v[2], v[3])
      [] t = "CoarseGraining" ->
             test_coarse_graining_persistence(v[1], n_samples_rate)
      [] t = "Brittleness" -> test_brittleness_stability(v[1], n_samples_rate)

\* the random source as the sub-test leaves it, having made its first draw
\* in state r: the E0 sub-tests draw on from r, the others end in the
\* stream of their last generator call
SubTestExit(t, r) ==
    CASE t = "LF" -> Consume(r, 1000 * 9)
      [] t = "PBO" -> Consume(r, 500 * (9 + (500 * 100)))
      [] t = "EFS" -> Consume(r, 1000 * 9)
      [] t = "PhaseStructure" -> Residual(DefaultSeed + 500 + 249, 9)
      [] t = "FrequencyStructure" -> Residual(DefaultSeed + 500 + 249, 9)
      [] t = "Permutation" -> Residual(DefaultSeed + 199, 8)
      [] t = "Gauge" -> Residual(DefaultSeed + 199, 9)
      [] t = "PhaseNudge" -> Residual(DefaultSeed + 239, 9)
      [] t = "CouplingNudge" -> Residual(DefaultSeed + 239, 8)
      [] t = "IntegerThinning" -> Residual(DefaultSeed + 499, 8)
      [] t = "CoarseGraining" -> Residual(DefaultSeed + 199, 8 + (10 * 2))
      [] t = "Brittleness" -> Residual(DefaultSeed + 199, 8)

\* a call of one sub-test with its default arguments
CallSubTest ==
    /\ Len(subcalls) < MaxSubCalls
    /\ \E t \in SubTestNames :
          LET first == FirstDraw(rng, DefaultSeed)
          IN  /\ \E v \in Statistics(t) :
                    /\ Recall(t, first, v)
                    /\ outcomes' = outcomes @@ Learn(t, first, v)
                    /\ subcalls' = Append(subcalls,
                           [test |-> t, entered |-> rng, first_draw |-> first,
                            result |-> SubTestResult(t, v),
                            left |-> SubTestExit(t, first)])
              /\ rng' = SubTestExit(t, first)
    /\ UNCHANGED pricerLocals
    /\ UNCHANGED <<stage, gate_log, results, audit_report, reports>>
    /\ UNCHANGED <<thin, sym, heap>>
    /\ UNCHANGED deskVars

\* a pricer run between two sub-tests: PhaseBarrierOption.price with its
\* default 10000 x 100 steps draws on from where the sub-test left
PricerRun ==
    /\ subcalls # <<>>
    /\ Len(subcalls) < MaxSubCalls
    /\ rng = subcalls[Len(subcalls)].left
    /\ rng' = Consume(rng, 10000 * 100)
    /\ UNCHANGED pricerLocals
    /\ UNCHANGED auditVars
    /\ UNCHANGED sideVars
    /\ UNCHANGED deskVars

InitSubTests ==
    /\ rng \in {np_random_seed(s) : s \in Seeds}
    /\ InitPricerIdle
    /\ InitAuditIdle
    /\ InitSideIdle
    /\ InitDeskIdle

NextSubTests ==
    \/ CallSubTest
    \/ PricerRun

SpecSubTests == InitSubTests /\ [][NextSubTests]_vars

(***************************************************************************)
(* PhaseLockDataGenerator                                                  *)
(***************************************************************************)
\* np.random.randint(len(ratios)) + 1
RatioDraws == 1..5

\* values of np.random.rand(), hundredths of [0, 1)
UniformDraws == {0, 50, 99}

\* a list of lock orders that reaches beyond p + q = 5
ratios_WithHighOrder == <<<<1, 1>>, <<2, 1>>, <<3, 2>>, <<1, 2>>, <<5, 3>>>>

ratios == <<<<1, 1>>, <<2, 1>>, <<3, 2>>, <<1, 2>>, <<2, 3>>>>

\* generate_locked_state on the eight draws it takes, in order: the ratio
\* index, rand for f_base, randn for f_b, rand for theta_a, randn for
\* theta_b, rand for K, rand for Gamma_a and for Gamma_b
generate_locked_state(ri, u_f, z_f, u_theta, z_theta, u_K, u_Ga, u_Gb) ==
    LET p == ratios[ri][1]
        q == ratios[ri][2]
        f_base == 100 + (u_f * 5)
        theta_a == u_theta * 360
    IN  PhaseLockState(f_base,
                       ((q * f_base * (1000 + ((5 * z_f) \div 100))) \div p)
                           \div 1000,
                       theta_a,
                       ((q * theta_a) \div p) + (z_theta * 5),
                       p, q,
                       10 + ((u_K * 40) \div 100),
                       1 + ((u_Ga * 5) \div 100),
                       1 + ((u_Gb * 5) \div 100))

\* generate_unlocked_state on the nine draws it takes, in order
generate_unlocked_state(p, q, u_fa, u_fb, u_ta, u_tb, u_K, u_Ga, u_Gb) ==
    PhaseLockState(100 + (u_fa * 10), 100 + (u_fb * 10),
                   u_ta * 360, u_tb * 360, p, q,
                   (10 + (u_K * 5)) \div 100,
                   5 + ((u_Ga * 20) \div 100),
                   5 + ((u_Gb * 20) \div 100))

(***************************************************************************)
(* PhaseLockState objects in the hands of the audit sub-tests and of the   *)
(* Greeks: one loop iteration (one object of the population) per action.   *)
(* heap.constructed is the object as its constructor returned it,          *)
(* heap.state the same object after the statements of the iteration; the   *)
(* other fields are the objects the iteration builds.  LockFuture.price    *)
(* only reads the objects it is given.                                     *)
(***************************************************************************)
\* PhaseLockState(f_a=state.f_a, ..., theta_a=.., theta_b=.., K=.., ...)
Rebuild(state, theta_a, theta_b, K) ==
    PhaseLockState(state.f_a, state.f_b, theta_a, theta_b, state.p, state.q,
                   K, state.Gamma_a, state.Gamma_b)

\* the populations the sub-tests draw their objects from
LockedStates ==
    {generate_locked_state(ri, 50, 0, u_t, z_t, u_K, 50, 50) :
        ri \in RatioDraws, u_t \in UniformDraws, z_t \in {-300, 0, 300},
        u_K \in {0, 99}}

UnlockedStates ==
    {generate_unlocked_state(p, q, 50, 20, u_ta, u_tb, 50, 50, 50) :
        p \in {1, 4}, q \in {1, 4}, u_ta \in UniformDraws,
        u_tb \in UniformDraws}

\* the coupling every state is muted to, 0.2
K_norm == 20

\* a mute that also brings theta_a back to zero
Mute_ZeroingPhase(state) == [state EXCEPT !.K = K_norm, !.theta_a = 0]

\* state.K = K_norm
Mute(state) == [state EXCEPT !.K = K_norm]

\* E1 test_amplitude_mute_lock_strength: one object of
\* locked_states + unlocked_states through `state.K = K_norm`
AmplitudeMuteTrial ==
    /\ heap.pc = "idle"
    /\ \E i \in {0, 249}, locked \in BOOLEAN :
          /\ \E state \in (IF locked THEN LockedStates ELSE UnlockedStates) :
                LET muted == Mute(state)
                IN  heap' = [pc |-> "amplitude_mute",
                             constructed |-> state,
                             state |-> muted,
                             built |-> <<>>,
                             e_phi_before |-> compute_phase_error(state),
                             e_phi_after |-> compute_phase_error(muted)]
          /\ rng' = IF locked THEN Residual(DefaultSeed + i, 8)
                    ELSE Residual(DefaultSeed + 500 + i, 9)
    /\ UNCHANGED pricerLocals
    /\ UNCHANGED auditVars
    /\ UNCHANGED <<subcalls, thin, sym>>
    /\ UNCHANGED deskVars

\* E3 test_phase_nudge_causality, one trial: the generated object, 20
\* degrees added to its theta_a when its phase error is under 10 degrees,
\* then state_toward, state_away and state_sham built from it
PhaseNudgeTrial ==
    /\ heap.pc = "idle"
    /\ \E i \in {0, 239}, sham_direction \in {-1, 1} :
          /\ \E state \in LockedStates :
                LET e_phi_0 == compute_phase_error(state)
                    shifted == IF Abs(e_phi_0) < 1000
                               THEN [state EXCEPT !.theta_a = @ + 2000]
                               ELSE state
                    e_phi == compute_phase_error(shifted)
                    nudge_direction == -Sign(e_phi)
                IN  heap' = [pc |-> "phase_nudge",
                             constructed |-> state,
                             state |-> shifted,
                             built |-> <<
                                 Rebuild(shifted, shifted.theta_a
                                             + (nudge_direction * 500),
                                         shifted.theta_b, shifted.K),
                                 Rebuild(shifted, shifted.theta_a
                                             - (nudge_direction * 500),
                                         shifted.theta_b, shifted.K),
                                 Rebuild(shifted, shifted.theta_a
                                             + (sham_direction * 500),
                                         shifted.theta_b, shifted.K)>>,
                             e_phi_before |-> e_phi_0,
                             e_phi_after |-> e_phi]
          /\ rng' = Residual(DefaultSeed + i, 9)
    /\ UNCHANGED pricerLocals
    /\ UNCHANGED auditVars
    /\ UNCHANGED <<subcalls, thin, sym>>
    /\ UNCHANGED deskVars

\* E3 test_coupling_nudge_causality, one trial: state_up and state_down
CouplingNudgeTrial ==
    /\ heap.pc = "idle"
    /\ \E i \in {0, 239} :
          /\ \E state \in LockedStates :
                heap' = [pc |-> "coupling_nudge",
                         constructed |-> state,
                         state |-> state,
                         built |-> <<
                             Rebuild(state, state.theta_a, state.theta_b,
                                     (state.K * 102) \div 100),
                             Rebuild(state, state.theta_a, state.theta_b,
                                     (state.K * 98) \div 100)>>,
                         e_phi_before |-> compute_phase_error(state),
                         e_phi_after |-> compute_phase_error(state)]
          /\ rng' = Residual(DefaultSeed + i, 8)
    /\ UNCHANGED pricerLocals
    /\ UNCHANGED auditVars
    /\ UNCHANGED <<subcalls, thin, sym>>
    /\ UNCHANGED deskVars

\* Greeks.compute_delta_phi on a state of its caller: state_ta and state_tb
DeltaPhi ==
    /\ heap.pc = "idle"
    /\ \E state \in LockedStates \cup UnlockedStates :
          heap' = [pc |-> "delta_phi",
                   constructed |-> state,
                   state |-> state,
                   built |-> <<
                       Rebuild(state, state.theta_a + 100, state.theta_b,
                               state.K),
                       Rebuild(state, state.theta_a, state.theta_b + 100,
                               state.K)>>,
                   e_phi_before |-> compute_phase_error(state),
                   e_phi_after |-> compute_phase_error(state)]
    /\ UNCHANGED rng
    /\ UNCHANGED pricerLocals
    /\ UNCHANGED auditVars
    /\ UNCHANGED <<subcalls, thin, sym>>
    /\ UNCHANGED deskVars

\* end of the iteration: its names are bound anew by the next one
EndTrial ==
    /\ heap.pc # "idle"
    /\ heap' = [pc |-> "idle"]
    /\ UNCHANGED rng
    /\ UNCHANGED pricerLocals
    /\ UNCHANGED auditVars
    /\ UNCHANGED <<subcalls, thin, sym>>
    /\ UNCHANGED deskVars

InitObjects ==
    /\ rng \in {np_random_seed(s) : s \in Seeds}
    /\ InitPricerIdle
    /\ InitAuditIdle
    /\ InitSideIdle
    /\ InitDeskIdle

NextObjects ==
    \/ AmplitudeMuteTrial
    \/ PhaseNudgeTrial
    \/ CouplingNudgeTrial
    \/ DeltaPhi
    \/ EndTrial

SpecObjects == InitObjects /\ [][NextObjects]_vars

(***************************************************************************)
(* E2_Symmetry: one loop iteration of either sub-test.  The comparison of  *)
(* the two Lock-Future prices enters as price_match, either outcome.       *)
(***************************************************************************)
\* the two sub-tests run on generated locked states; the transformations
\* are defined on every state, so the unlocked population is tried too
SymStates == LockedStates \cup UnlockedStates

\* offset = np.random.rand() * 360
Offsets == {u * 360 : u \in {0, 25, 50, 99}}

\* the permuted state with the lock order left as it was
Permuted_OrderKept(state) ==
    PhaseLockState(state.f_b, state.f_a, state.theta_b, state.theta_a,
                   state.p, state.q, state.K, state.Gamma_b, state.Gamma_a)

\* state_permuted: swap A <-> B
Permuted(state) ==
    PhaseLockState(state.f_b, state.f_a, state.theta_b, state.theta_a,
                   state.q, state.p, state.K, state.Gamma_b, state.Gamma_a)

\* state_offset: the gauge transformation
GaugeShifted(state, offset) ==
    PhaseLockState(state.f_a, state.f_b,
                   (state.theta_a + offset) % (2 * HalfTurn),
                   (state.theta_b + offset) % (2 * HalfTurn),
                   state.p, state.q, state.K, state.Gamma_a, state.Gamma_b)

\* test_agent_permutation_invariance, loop body
PermutationTrial ==
    /\ sym.pc = "idle"
    /\ \E i \in {0, 199}, price_match \in BOOLEAN :
          /\ \E state \in SymStates :
                LET state_permuted == Permuted(state)
                    original_e_phi == compute_phase_error(state)
                    permuted_e_phi == compute_phase_error(state_permuted)
                    K_match == state.K = state_permuted.K
                    e_phi_match ==
                        Abs(Abs(original_e_phi) - Abs(permuted_e_phi)) < 100
                IN  sym' = [pc |-> "permutation",
                            state |-> state,
                            transformed |-> state_permuted,
                            offset |-> 0,
                            original_e_phi |-> original_e_phi,
                            transformed_e_phi |-> permuted_e_phi,
                            K_match |-> K_match,
                            e_phi_match |-> e_phi_match,
                            agreement |-> K_match /\ e_phi_match
                                              /\ price_match]
          /\ rng' = Residual(DefaultSeed + i, 8)
    /\ UNCHANGED pricerLocals
    /\ UNCHANGED auditVars
    /\ UNCHANGED <<subcalls, thin, heap>>
    /\ UNCHANGED deskVars

\* test_gauge_invariance_phase_offset, loop body
GaugeTrial ==
    /\ sym.pc = "idle"
    /\ \E i \in {0, 199}, price_match \in BOOLEAN, offset \in Offsets :
          /\ \E state \in SymStates :
                LET state_offset == GaugeShifted(state, offset)
                    original_e_phi == compute_phase_error(state)
                    offset_e_phi == compute_phase_error(state_offset)
                    e_phi_match == Abs(original_e_phi - offset_e_phi) < 100
                IN  sym' = [pc |-> "gauge",
                            state |-> state,
                            transformed |-> state_offset,
                            offset |-> offset,
                            original_e_phi |-> original_e_phi,
                            transformed_e_phi |-> offset_e_phi,
                            K_match |-> TRUE,
                            e_phi_match |-> e_phi_match,
                            agreement |-> e_phi_match /\ price_match]
          /\ rng' = Residual(DefaultSeed + i, 9)
    /\ UNCHANGED pricerLocals
    /\ UNCHANGED auditVars
    /\ UNCHANGED <<subcalls, thin, heap>>
    /\ UNCHANGED deskVars

\* end of the iteration
EndSymmetryTrial ==
    /\ sym.pc # "idle"
    /\ sym' = [pc |-> "idle"]
    /\ UNCHANGED rng
    /\ UNCHANGED pricerLocals
    /\ UNCHANGED auditVars
    /\ UNCHANGED <<subcalls, thin, heap>>
    /\ UNCHANGED deskVars

InitSymmetry ==
    /\ rng \in {np_random_seed(s) : s \in Seeds}
    /\ InitPricerIdle
    /\ InitAuditIdle
    /\ InitSideIdle
    /\ InitDeskIdle

NextSymmetry ==
    \/ PermutationTrial
    \/ GaugeTrial
    \/ EndSymmetryTrial

SpecSymmetry == InitSymmetry /\ [][NextSymmetry]_vars

(***************************************************************************)
(* E4_RGPersistence.test_integer_thinning, statement by statement          *)
(***************************************************************************)
\* [s.K for s in states] if states else [0]
KValues(states) ==
    IF states # <<>> THEN [i \in 1..Len(states) |-> states[i].K] ELSE <<0>>

\* np.mean of a list of K of at most six entries, in units of 1/6000
MeanK(ks) == (SumSeq(ks) * 60) \div Len(ks)

\* the record returned for the three buckets
ThinningRecord(low, mid, high) ==
    test_integer_thinning(MeanK(KValues(low)), MeanK(KValues(mid)),
                          MeanK(KValues(high)))

\* entry: np.random.seed(seed) and the three empty buckets
CallThinning ==
    /\ thin.pc = "idle"
    /\ \E n \in 0..MaxSamples :
          thin' = [pc |-> "loop", n_samples |-> n, i |-> 0,
                   low_order_states |-> <<>>, mid_order_states |-> <<>>,
                   high_order_states |-> <<>>]
    /\ rng' = FirstDraw(rng, DefaultSeed)
    /\ UNCHANGED pricerLocals
    /\ UNCHANGED auditVars
    /\ UNCHANGED <<subcalls, sym, heap>>
    /\ UNCHANGED deskVars

\* one iteration of `for i in range(n_samples)`
ThinningIter ==
    /\ thin.pc = "loop"
    /\ thin.i < thin.n_samples
    /\ \E ri \in RatioDraws, u_K \in UniformDraws :
          LET state == generate_locked_state(ri, 50, 0, 50, 0, u_K, 50, 50)
              order == state.p + state.q
          IN  thin' =
                  IF order <= 3
                  THEN [thin EXCEPT !.i = @ + 1,
                                    !.low_order_states = Append(@, state)]
                  ELSE IF order <= 5
                  THEN [thin EXCEPT !.i = @ + 1,
                                    !.mid_order_states = Append(@, state)]
                  ELSE [thin EXCEPT !.i = @ + 1,
                                    !.high_order_states = Append(@, state)]
    /\ rng' = Residual(DefaultSeed + thin.i, 8)
    /\ UNCHANGED pricerLocals
    /\ UNCHANGED auditVars
    /\ UNCHANGED <<subcalls, sym, heap>>
    /\ UNCHANGED deskVars

\* after the loop: the K lists, their means, the comparison and the record
ThinningReturn ==
    /\ thin.pc = "loop"
    /\ thin.i >= thin.n_samples
    /\ thin' = [pc |-> "done", n_samples |-> thin.n_samples, i |-> thin.i,
                low_order_states |-> thin.low_order_states,
                mid_order_states |-> thin.mid_order_states,
                high_order_states |-> thin.high_order_states,
                result |-> ThinningRecord(thin.low_order_states,
                                          thin.mid_order_states,
                                          thin.high_order_states)]
    /\ UNCHANGED rng
    /\ UNCHANGED pricerLocals
    /\ UNCHANGED auditVars
    /\ UNCHANGED <<subcalls, sym, heap>>
    /\ UNCHANGED deskVars

InitThinning ==
    /\ rng \in {np_random_seed(s) : s \in Seeds}
    /\ InitPricerIdle
    /\ InitAuditIdle
    /\ InitSideIdle
    /\ InitDeskIdle

NextThinning ==
    \/ CallThinning
    \/ ThinningIter
    \/ ThinningReturn

SpecThinning == InitThinning /\ [][NextThinning]_vars

(***************************************************************************)
(* LMSRMarketMaker.  Positions, quantities and b are whole shares; the     *)
(* model takes them from sets that make every q / b a multiple of 1/2.     *)
(* np.exp is computed in thousandths on multiples of 1/2, np.log by linear *)
(* interpolation between two such values.                                  *)
(***************************************************************************)
\* np.exp(k / 2) in thousandths, by repeated multiplication
RECURSIVE ExpHalfFrom(_)
ExpHalfFrom(k) ==
    IF k = 0 THEN 1000
    ELSE IF k > 0 THEN (ExpHalfFrom(k - 1) * 1649) \div 1000
    ELSE (ExpHalfFrom(k + 1) * 607) \div 1000

\* the values of np.exp on the arguments the model meets
ExpHalfTable == [k \in -21..15 |-> ExpHalfFrom(k)]

ExpHalf(k) == ExpHalfTable[k]

\* the largest k from k0 up with exp(k / 2) <= x (x in thousandths)
RECURSIVE FloorHalf(_, _)
FloorHalf(x, k0) == IF ExpHalf(k0 + 1) > x THEN k0 ELSE FloorHalf(x, k0 + 1)

\* np.log(x) in thousandths, x in thousandths, x > 0
LogMilli(x) ==
    LET k == FloorHalf(x, -20)
        lo == ExpHalf(k)
        hi == ExpHalf(k + 1)
    IN  (k * 500) + (((x - lo) * 500) \div (hi - lo))

\* sum(np.exp(q / b) for q in positions.values()), b # 0
RECURSIVE SumExp(_, _, _)
SumExp(positions, b, keys) ==
    IF keys = {} THEN 0
    ELSE LET i == CHOOSE i \in keys : TRUE
         IN  ExpHalf((2 * positions[i]) \div b)
                 + SumExp(positions, b, keys \ {i})

\* C(q) = b * np.log(sum(np.exp(q / b))), in thousandths of a share
CostFunction(positions, b) ==
    b * LogMilli(SumExp(positions, b, DOMAIN positions))

Instruments == {"LF", "PBO", "EFS"}

\* what a method call comes back with: a value, or the exception raised
Returned(v) == [outcome |-> "ok", value |-> v]

Raised(e) == [outcome |-> e, value |-> 0]

\* LMSRMarketMaker(liquidity_param)
LMSRMarketMaker(liquidity_param) ==
    [b |-> liquidity_param, positions |-> [i \in Instruments |-> 0]]

\* get_price: the membership test, then q / self.b (ZeroDivisionError of
\* the float division for b = 0); the price in thousandths
get_price(self, instrument) ==
    IF instrument \notin DOMAIN self.positions
    THEN Raised("ValueError: Unknown instrument")
    ELSE IF self.b = 0 THEN Raised("ZeroDivisionError")
    ELSE Returned((ExpHalf((2 * self.positions[instrument]) \div self.b) * 1000)
                      \div SumExp(self.positions, self.b,
                                  DOMAIN self.positions))

\* get_cost: C_before (ZeroDivisionError for b = 0), the copy and its
\* `+=` (KeyError for a name that is no key), C_after - C_before
get_cost(self, instrument, quantity) ==
    IF self.b = 0 THEN Raised("ZeroDivisionError")
    ELSE IF instrument \notin DOMAIN self.positions THEN Raised("KeyError")
    ELSE Returned(CostFunction([self.positions EXCEPT
                                    ![instrument] = @ + quantity], self.b)
                      - CostFunction(self.positions, self.b))

\* execute_trade taking the cost after it has moved the position
execute_trade_CostAfter(self, instrument, quantity) ==
    LET cost == get_cost(self, instrument, quantity)
    IN  IF cost.outcome # "ok"
        THEN [result |-> cost, positions |-> self.positions]
        ELSE LET moved == [self.positions EXCEPT ![instrument] = @ + quantity]
             IN  [result |-> get_cost([self EXCEPT !.positions = moved],
                                      instrument, quantity),
                  positions |-> moved]

\* execute_trade opening a position for a name it does not know
execute_trade_Upsert(self, instrument, quantity) ==
    IF instrument \in DOMAIN self.positions
    THEN LET cost == get_cost(self, instrument, quantity)
         IN  [result |-> cost,
              positions |-> IF cost.outcome = "ok"
                            THEN [self.positions EXCEPT
                                      ![instrument] = @ + quantity]
                            ELSE self.positions]
    ELSE [result |-> Raised("KeyError"),
          positions |-> [i \in DOMAIN self.positions \cup {instrument} |->
                            IF i = instrument THEN quantity
                            ELSE self.positions[i]]]

\* execute_trade: the cost first (its exception leaves the method), then
\* the position of the instrument; result and the positions left behind
execute_trade(self, instrument, quantity) ==
    LET cost == get_cost(self, instrument, quantity)
    IN  [result |-> cost,
         positions |-> IF cost.outcome = "ok"
                       THEN [self.positions EXCEPT ![instrument] = @ + quantity]
                       ELSE self.positions]

\* arguments the callers of the market maker pass
Liquidity == {-100, 0, 100}

InstrumentArgs == Instruments \cup {"XYZ"}

Quantities == {-100, 50}

\* a call on the market maker and what it came to, for the log
LoggedCall(op, instrument, quantity, result, before, after) ==
    [op |-> op, instrument |-> instrument, quantity |-> quantity,
     result |-> result, before |-> before, after |-> after]

\* mm = LMSRMarketMaker(liquidity_param=...)
NewMarketMaker ==
    /\ mm.pc = "idle"
    /\ \E liquidity_param \in Liquidity :
          mm' = [pc |-> "live", self |-> LMSRMarketMaker(liquidity_param),
                 log |-> <<>>]
    /\ UNCHANGED <<rng, quote, coarse>>
    /\ UNCHANGED pricerLocals
    /\ UNCHANGED auditVars
    /\ UNCHANGED sideVars

\* mm.get_price(instrument)
GetPrice ==
    /\ mm.pc = "live"
    /\ Len(mm.log) < MaxOps
    /\ \E instrument \in InstrumentArgs :
          mm' = [mm EXCEPT !.log =
                    Append(@, LoggedCall("get_price", instrument, 0,
                                         get_price(mm.self, instrument),
                                         mm.self.positions,
                                         mm.self.positions))]
    /\ UNCHANGED <<rng, quote, coarse>>
    /\ UNCHANGED pricerLocals
    /\ UNCHANGED auditVars
    /\ UNCHANGED sideVars

\* mm.get_cost(instrument, quantity)
GetCost ==
    /\ mm.pc = "live"
    /\ Len(mm.log) < MaxOps
    /\ \E instrument \in InstrumentArgs, quantity \in Quantities :
          mm' = [mm EXCEPT !.log =
                    Append(@, LoggedCall("get_cost", instrument, quantity,
                                         get_cost(mm.self, instrument,
                                                  quantity),
                                         mm.self.positions,
                                         mm.self.positions))]
    /\ UNCHANGED <<rng, quote, coarse>>
    /\ UNCHANGED pricerLocals
    /\ UNCHANGED auditVars
    /\ UNCHANGED sideVars

\* mm.execute_trade(instrument, quantity)
ExecuteTrade ==
    /\ mm.pc = "live"
    /\ Len(mm.log) < MaxOps
    /\ \E instrument \in InstrumentArgs, quantity \in Quantities :
          LET done == execute_trade(mm.self, instrument, quantity)
          IN  mm' = [mm EXCEPT
                        !.self.positions = done.positions,
                        !.log = Append(@, LoggedCall("execute_trade",
                                           instrument, quantity, done.result,
                                           mm.self.positions,
                                           done.positions))]
    /\ UNCHANGED <<rng, quote, coarse>>
    /\ UNCHANGED pricerLocals
    /\ UNCHANGED auditVars
    /\ UNCHANGED sideVars

(***************************************************************************)
(* EligibilityFailureSwap.price.  compute_risk_score ends in               *)
(* np.clip(risk, 0.0, 1.0); its value enters as risk_score (thousandths).  *)
(***************************************************************************)
RiskScores == {250, 1000}

Notionals == {-1, 0, 1}

\* premium = notional * risk_score * risk_multiplier, in thousandths
EFSPremium(notional, risk_score) == (notional * risk_score * 12) \div 10

\* EligibilityFailureSwap.price(state, notional)
PriceEFS ==
    /\ quote.pc = "idle"
    /\ \E notional \in Notionals, risk_score \in RiskScores :
          quote' = [pc |-> "efs", notional |-> notional,
                    risk_score |-> risk_score,
                    result |-> Returned(EFSPremium(notional, risk_score))]
    /\ UNCHANGED <<rng, mm, coarse>>
    /\ UNCHANGED pricerLocals
    /\ UNCHANGED auditVars
    /\ UNCHANGED sideVars

(***************************************************************************)
(* PhaseLockMetrics and LockFuture.price.  Frequencies, K, the dampings    *)
(* and the metrics are in hundredths, the linear score in tenths, the      *)
(* exponential and the price in thousandths.                               *)
(***************************************************************************)
\* IEEE infinity, what np.exp overflows to
Inf == 2147483647

\* ε_cap = max(0, 2π·K - (Γ_a + Γ_b))
compute_capture(state) ==
    LET capture == ((628 * state.K) \div 100)
                       - (state.Gamma_a + state.Gamma_b)
    IN  IF capture > 0 THEN capture ELSE 0

\* the value compute_eligibility returns when nothing can be captured
EligibilitySentinel == 1000000 * 100

\* s_f = ε_cap × |p·f_a - q·f_b| if ε_cap > 0 else 1e6
compute_eligibility(state) ==
    LET eps_cap == compute_capture(state)
        freq_mismatch == Abs(state.p * state.f_a - state.q * state.f_b)
    IN  IF eps_cap > 0 THEN (eps_cap * freq_mismatch) \div 100
        ELSE EligibilitySentinel

\* the golden ratio conjugate, 0.382
CHI_EQ == 38

\* χ = |K / (1 + K) - CHI_EQ|
compute_criticality(state) ==
    Abs(((100 * state.K) \div (100 + state.K)) - CHI_EQ)

\* T = 100 (1 - |e_φ| / 180) min(ε_cap / 0.1, 1), 0 when nothing can be
\* captured or the error is beyond a quarter turn
compute_harmony(state) ==
    LET e_phi == Abs(compute_phase_error(state))
        eps_cap == compute_capture(state)
        depth == IF eps_cap * 10 < 100 THEN eps_cap * 10 ELSE 100
    IN  IF eps_cap <= 0 \/ e_phi > (HalfTurn \div 2) THEN 0
        ELSE (((10000 * (HalfTurn - e_phi)) \div HalfTurn) * depth) \div 100

\* np.exp(x) in thousandths, x in tenths: infinity beyond the largest
\* exponent of a double (709.78), 0 below exp(-10.5), exp(7.5) from 7.5 up
\* to the overflow (1 / (1 + exp(x)) is below a thousandth from x = 7 on),
\* and in between read off ExpHalf with the tenths interpolated
np_exp(x) ==
    IF x > 7097 THEN Inf
    ELSE IF x >= 75 THEN ExpHalf(15)
    ELSE IF x < -105 THEN 0
    ELSE LET k == x \div 5
             lo == ExpHalf(k)
             hi == ExpHalf(k + 1)
         IN  lo + (((hi - lo) * (x - (5 * k))) \div 5)

\* np.clip left out
np_clip_Unclipped(x, lo, hi) == x

\* np.clip(x, lo, hi)
np_clip(x, lo, hi) == IF x < lo THEN lo ELSE IF x > hi THEN hi ELSE x

\* np.dot(BETA_COEFFICIENTS, features), in tenths: an infinite time decay
\* makes the (otherwise finite) sum infinite
Logit(state, time_to_expiry) ==
    LET s_f == compute_eligibility(state)
        e_phi == compute_phase_error(state)
        T == compute_harmony(state)
        chi == compute_criticality(state)
        K == state.K
        decay == np_exp((-time_to_expiry) \div 100)
    IN  IF decay = Inf THEN Inf
        ELSE   ((-8 * s_f) \div 100)
             + ((-15 * e_phi) \div HalfTurn)
             + ((20 * T) \div 10000)
             + ((5 * chi) \div 100)
             + ((-20 * (chi - CHI_EQ) * (chi - CHI_EQ)) \div 10000)
             + ((35 * K) \div 100)
             + (-3 * (s_f \div 100) * (Abs(e_phi) \div 100))
             + ((12 * chi * K) \div 10000)
             + ((2 * decay) \div 1000)

\* LockFuture.price: the exponent handed to np.exp, what np.exp made of
\* it, and the price returned
LockFuturePrice(state, time_to_expiry) ==
    LET logit == np_clip(Logit(state, time_to_expiry), -200, 200)
        exponent == IF logit = Inf THEN -Inf ELSE -logit
        e == IF exponent = -Inf THEN 0 ELSE np_exp(exponent)
        logistic == IF e = Inf THEN 0 ELSE 1000000 \div (1000 + e)
    IN  [exponent |-> exponent, exp |-> e,
         price |-> np_clip(logistic, 0, 1000)]

\* states with nothing to capture, and one far out of tune
ExtremeStates ==
    {PhaseLockState(300, 300, 0, 0, 1, 1, 0, 3, 3),
     PhaseLockState(100, 600, 0, 18000, 1, 1, 0, 25, 25),
     PhaseLockState(100, 1100, 0, 17900, 4, 1, 1000, 1, 1)}

\* times to expiry, hundredths: the audits' 1.0, and the far ends
ExpiryTimes == {0, 100, 100000, -1000000}

\* LockFuture.price(state, time_to_expiry)
PriceLF ==
    /\ \E state \in LockedStates \cup UnlockedStates \cup ExtremeStates,
          time_to_expiry \in ExpiryTimes :
          LET r == LockFuturePrice(state, time_to_expiry)
          IN  quote' = [pc |-> "lf", state |-> state,
                        time_to_expiry |-> time_to_expiry,
                        logit |-> Logit(state, time_to_expiry),
                        exponent |-> r.exponent, exp |-> r.exp,
                        result |-> Returned(r.price)]
    /\ UNCHANGED <<rng, mm, coarse>>
    /\ UNCHANGED pricerLocals
    /\ UNCHANGED auditVars
    /\ UNCHANGED sideVars

(***************************************************************************)
(* E4_RGPersistence.test_coarse_graining_persistence, statement by         *)
(* statement.  coarse.samples keeps, for every sample of the loop, the     *)
(* two prices and whether the sample was counted.                          *)
(***************************************************************************)
\* the noisy copies made of every sample
PoolSize == 10

\* one noisy copy: noise_theta = randn * 2 on both phases, noise_K =
\* randn * 0.01 on K, which is kept at 0.001 (0 hundredths) or above
NoisyState(state, z_theta, z_K) ==
    LET noise_theta == z_theta * 2
        noise_K == z_K \div 100
    IN  Rebuild(state, state.theta_a + noise_theta,
                state.theta_b + noise_theta,
                IF state.K + noise_K > 0 THEN state.K + noise_K ELSE 0)

\* np.mean of the prices of the noisy copies, thousandths
CoarsePrice(state, noise) ==
    SumSeq([j \in 1..PoolSize |->
               LockFuturePrice(NoisyState(state, noise[j][1], noise[j][2]),
                               100).price]) \div PoolSize

\* the if / elif / else on the two prices with the middle band not counted
Persists_MidDropped(price_original, price_coarse) ==
    IF price_original > 700 THEN price_coarse > 600
    ELSE IF price_original < 300 THEN price_coarse < 400
    ELSE FALSE

\* the if / elif / else on the two prices: is the sample counted
Persists(price_original, price_coarse) ==
    IF price_original > 700 THEN price_coarse > 600
    ELSE IF price_original < 300 THEN price_coarse < 400
    ELSE TRUE

\* the states generate_locked_state(seed=seed+i) hands to the loop
CoarseStates ==
    {generate_locked_state(ri, 50, 0, 50, z_t, u_K, 50, 50) :
        ri \in {1, 2}, z_t \in {-300, 0, 300}, u_K \in {0, 99}}

\* the twenty normal draws of one sample, as (noise_theta, noise_K) pairs
NoiseRuns ==
    {[j \in 1..PoolSize |-> <<z_t, z_K>>] :
        z_t \in {-300, 300}, z_K \in {-300, 300}}

\* entry: np.random.seed(seed), persistence_count = 0
CallCoarse ==
    /\ coarse.pc = "idle"
    /\ \E n \in 0..MaxSamples :
          coarse' = [pc |-> "loop", n_samples |-> n, i |-> 0,
                     persistence_count |-> 0, samples |-> <<>>]
    /\ rng' = FirstDraw(rng, DefaultSeed)
    /\ UNCHANGED <<mm, quote>>
    /\ UNCHANGED pricerLocals
    /\ UNCHANGED auditVars
    /\ UNCHANGED sideVars

\* one iteration of `for i in range(n_samples)`
CoarseIter ==
    /\ coarse.pc = "loop"
    /\ coarse.i < coarse.n_samples
    /\ \E state \in CoarseStates, noise \in NoiseRuns :
          LET price_original == LockFuturePrice(state, 100).price
              price_coarse == CoarsePrice(state, noise)
              counted == Persists(price_original, price_coarse)
          IN  coarse' = [coarse EXCEPT
                  !.i = @ + 1,
                  !.persistence_count = IF counted THEN @ + 1 ELSE @,
                  !.samples = Append(@, [price_original |-> price_original,
                                         price_coarse |-> price_coarse,
                                         counted |-> counted])]
    /\ rng' = Residual(DefaultSeed + coarse.i, 8 + (2 * PoolSize))
    /\ UNCHANGED <<mm, quote>>
    /\ UNCHANGED pricerLocals
    /\ UNCHANGED auditVars
    /\ UNCHANGED sideVars

\* after the loop: the rate (ZeroDivisionError for n_samples = 0), the
\* comparison with 0.80 and the record
CoarseReturn ==
    /\ coarse.pc = "loop"
    /\ coarse.i >= coarse.n_samples
    /\ coarse' = [pc |-> "done", n_samples |-> coarse.n_samples,
                  i |-> coarse.i,
                  persistence_count |-> coarse.persistence_count,
                  samples |-> coarse.samples,
                  result |->
                      IF coarse.n_samples = 0 THEN Raised("ZeroDivisionError")
                      ELSE Returned(test_coarse_graining_persistence(
                               coarse.persistence_count, coarse.n_samples))]
    /\ UNCHANGED rng
    /\ UNCHANGED <<mm, quote>>
    /\ UNCHANGED pricerLocals
    /\ UNCHANGED auditVars
    /\ UNCHANGED sideVars

NextCoarse ==
    \/ CallCoarse
    \/ CoarseIter
    \/ CoarseReturn

InitMarket ==
    /\ rng = np_random_seed(DefaultSeed)
    /\ InitPricerIdle
    /\ InitAuditIdle
    /\ InitSideIdle
    /\ InitDeskIdle

\* a client of the market maker
NextMarket ==
    \/ NewMarketMaker
    \/ GetPrice
    \/ GetCost
    \/ ExecuteTrade

SpecMarket == InitMarket /\ [][NextMarket]_vars

\* a caller that sets up a market maker, asks it for prices and prices a
\* swap
NextQuotes ==
    \/ NewMarketMaker
    \/ GetPrice
    \/ PriceEFS

SpecQuotes == InitMarket /\ [][NextQuotes]_vars

\* callers of the Lock-Future pricer
NextLockFuture == PriceLF

SpecCoarse == InitMarket /\ [][NextCoarse]_vars

SpecLockFuture == InitMarket /\ [][NextLockFuture]_vars

(***************************************************************************)
(* Properties                                                              *)
(***************************************************************************)
\* the input domain of the pricer's contract
ValidCall(a) ==
    a.phi_barrier > 0 /\ a.n_paths >= 1 /\ a.n_steps >= 1 /\ a.dt > 0

\* a trajectory has a point within the barrier of zero
KnockedIn(trajectory, phi_barrier) ==
    \E i \in 1..Len(trajectory) :
        /\ trajectory[i] # NaN
        /\ -phi_barrier <= trajectory[i]
        /\ trajectory[i] <= phi_barrier

\* max(0, 1 - |e|/180) in payoff units
AlignmentPayoff(e) == IF Abs(e) >= HalfTurn THEN 0 ELSE HalfTurn - Abs(e)

\* the payoffs of a call add up to total
RECURSIVE TotalFrom(_, _)
TotalFrom(xs, i) == IF i > Len(xs) THEN 0 ELSE xs[i] + TotalFrom(xs, i + 1)

\* C1: for a call with barrier > 0, n_paths >= 1, n_steps >= 1 and dt > 0,
\* whatever the draws, the returned price is a number in [0,1].
C1_PriceInUnitInterval ==
    \A i \in DOMAIN calls :
        ValidCall(calls[i].args) =>
            /\ calls[i].price.den > 0
            /\ 0 <= calls[i].price.num
            /\ calls[i].price.num <= calls[i].price.den * HalfTurn

C1_Witness ==
    /\ pc = "done"
    /\ ValidCall(args)
    /\ args.n_paths >= 2
    /\ price.num > 0
    /\ \E i \in DOMAIN trace : trace[i][Len(trace[i])] < 0

\* C2: every point of a simulated trajectory, the initial phase error
\* included, lies in [-180,180] degrees, whatever K, the step size (not
\* negative, so that its square root exists) and the draws are.
C2_TrajectoryWrapped ==
    args.dt >= 0 =>
        \A i \in DOMAIN phase_trajectory :
            /\ phase_trajectory[i] # NaN
            /\ -HalfTurn <= phase_trajectory[i]
            /\ phase_trajectory[i] <= HalfTurn

\* a step whose drift plus diffusion left the interval and was wrapped back
C2_Witness ==
    /\ args.dt > 0
    /\ \E i \in 2..Len(phase_trajectory) :
          LET e == phase_trajectory[i - 1]
          IN  \E k \in DOMAIN Draws :
                 /\ phase_trajectory[i] = SimStep(e, args.state.K, args.dt, Draws[k])
                 /\ Abs(e + Drift(e, args.state.K, args.dt)
                          + Diffusion(args.dt, Draws[k])) > HalfTurn

\* C3: a path is knocked in exactly when some point of its trajectory, the
\* initial one included, has absolute value <= the barrier (inclusive).
C3_KnockInIffPointWithinBarrier ==
    (trace # <<>> /\ pc # "sim") =>
        (barrier_hit <=> KnockedIn(phase_trajectory, args.phi_barrier))

\* a knocked-in path that only touches the barrier, on a point after the first
C3_Witness ==
    /\ trace # <<>>
    /\ pc # "sim"
    /\ ValidCall(args)
    /\ barrier_hit
    /\ Abs(phase_trajectory[1]) > args.phi_barrier
    /\ \A i \in DOMAIN phase_trajectory :
          Abs(phase_trajectory[i]) >= args.phi_barrier

\* C4: the payoff of a path is max(0, 1 - |final phase error|/180), taken on
\* the last trajectory point, when the path knocked in, and 0 when it did not.
C4_PayoffOfPath ==
    \A i \in DOMAIN trace :
        LET last == trace[i][Len(trace[i])]
        IN  last # NaN =>
                payoffs[i] = IF KnockedIn(trace[i], args.phi_barrier)
                             THEN AlignmentPayoff(last) ELSE 0

\* one call with a knocked-in path paid on a last point that differs from
\* its first, and a path that stayed out and is paid 0
C4_Witness ==
    /\ ValidCall(args)
    /\ \E i \in DOMAIN trace, j \in DOMAIN trace :
          /\ KnockedIn(trace[i], args.phi_barrier)
          /\ Abs(trace[i][Len(trace[i])]) # Abs(trace[i][1])
          /\ payoffs[i] > 0
          /\ ~KnockedIn(trace[j], args.phi_barrier)
          /\ Abs(trace[j][Len(trace[j])]) < HalfTurn
          /\ payoffs[j] = 0

\* C5: price returns the arithmetic mean of the n_paths payoffs; with
\* n_paths = 1 it returns, without failing, the payoff of the single path.
C5_PriceIsMeanOfPayoffs ==
    (pc = "done" /\ args.n_paths >= 1) =>
        /\ Len(payoffs) = args.n_paths
        /\ price.den = args.n_paths
        /\ price.num = TotalFrom(payoffs, 1)
        /\ (args.n_paths = 1 => price = [num |-> payoffs[1], den |-> 1])

C5_Witness ==
    /\ pc = "done"
    /\ ValidCall(args)
    /\ args.n_paths = 1
    /\ price.num > 0
    /\ price.num < HalfTurn

\* C6: price never returns a value for a non-positive path count, a
\* non-positive step count or a non-positive dt (it fails fast instead).
C6_FailFastOnInvalidInput ==
    pc = "done" => (args.n_paths >= 1 /\ args.n_steps >= 1 /\ args.dt > 0)

\* C7: two calls entered with the random source in the same state and with
\* identical inputs produce the same trajectories, point by point, and the
\* same price.
C7_SameSeedSameRun ==
    \A i \in DOMAIN calls, j \in DOMAIN calls :
        (calls[i].rng0 = calls[j].rng0 /\ calls[i].args = calls[j].args) =>
            (calls[i].trace = calls[j].trace /\ calls[i].price = calls[j].price)

\* a reseeded second run whose trajectories depend on the draws
C7_Witness ==
    /\ Len(calls) = 2
    /\ calls[1].rng0 = calls[2].rng0
    /\ calls[1].args = calls[2].args
    /\ ValidCall(calls[1].args)
    /\ calls[1].args.n_paths >= 2
    /\ calls[1].trace[1] # calls[1].trace[2]

GateOrder ==
    <<"E0_Calibration", "E1_Vibration", "E2_Symmetry", "E3_Causal",
      "E4_RGPersistence">>

StageOrder == GateOrder \o <<"Aggregate", "Returned">>

\* the gates run so far are the first gates of the fixed order, each once,
\* and the audit stands at the stage that follows them
PipelineInOrder ==
    /\ Len(gate_log) <= Len(GateOrder)
    /\ gate_log = SubSeq(GateOrder, 1, Len(gate_log))
    /\ IF Len(gate_log) < Len(GateOrder)
       THEN stage = StageOrder[Len(gate_log) + 1]
       ELSE stage \in {"Aggregate", "Returned"}

\* C8: every audit run visits E0_Calibration, E1_Vibration, E2_Symmetry,
\* E3_Causal, E4_RGPersistence, Aggregate in this order, each gate exactly
\* once, and reaches the end of Aggregate whether or not the gates passed.
C8_FixedPipeline ==
    /\ []PipelineInOrder
    /\ <>(stage = "Returned" /\ gate_log = GateOrder)

\* the report is returned although the first gate and the last did not pass
C8_Witness ==
    /\ stage = "Returned"
    /\ gate_log = GateOrder
    /\ ~results["E0"].passed
    /\ ~results["E4"].passed

SubTests(k) ==
    CASE k = "E0" -> {"LF", "PBO", "EFS"}
      [] k = "E1" -> {"PhaseStructure", "FrequencyStructure"}
      [] k = "E2" -> {"Permutation", "Gauge"}
      [] k = "E3" -> {"PhaseNudge", "CouplingNudge"}
      [] k = "E4" -> {"IntegerThinning", "CoarseGraining", "Brittleness"}

\* C9: a gate's passed flag is true exactly when the passed flag of each of
\* its sub-tests is (3 for E0, 2 for E1, E2 and E3, 3 for E4).
C9_GatePassedIffAllSubTests ==
    \A k \in DOMAIN results :
        /\ DOMAIN results[k].results = SubTests(k)
        /\ results[k].passed <=>
               ~(\E n \in SubTests(k) : ~results[k].results[n].passed)

\* a gate failed by one sub-test alone next to a gate whose sub-tests all pass
C9_Witness ==
    /\ stage = "Returned"
    /\ ~results["E0"].passed
    /\ results["E0"].results["LF"].passed
    /\ results["E0"].results["PBO"].passed
    /\ ~results["E0"].results["EFS"].passed
    /\ results["E4"].passed

LadderLabel ==
    [n \in 0..5 |-> IF n \in {0, 1, 2} THEN "PROBE"
                    ELSE IF n = 3 THEN "PRIMITIVE" ELSE "LAW"]

\* C10: gates_passed is the number, 0..5, of gates whose passed flag is
\* true, and the classification is fixed by that number: Probe for 0..2,
\* Primitive for 3, Law for 4 and 5.
C10_CountAndClassification ==
    stage = "Returned" =>
        LET n == Cardinality({k \in {"E0", "E1", "E2", "E3", "E4"} :
                                 results[k].passed})
        IN  /\ audit_report.gates_passed = n
            /\ audit_report.gates_passed \in 0..5
            /\ audit_report.classification = LadderLabel[n]

C10_Witness ==
    /\ stage = "Returned"
    /\ audit_report.gates_passed = 2
    /\ audit_report.classification = "PROBE"
    /\ ~results["E1"].passed
    /\ results["E2"].passed

GateKeys == {"E0", "E1", "E2", "E3", "E4"}

\* a result record of a sub-test: its name, a statistic, the pass flag and
\* the note
SubTestRecord(r) ==
    /\ {"test", "passed", "notes"} \subseteq DOMAIN r
    /\ r.passed \in BOOLEAN
    /\ DOMAIN r \ {"test", "passed", "notes"} # {}

\* C11: whatever sub-tests pass or fail, the report returned by
\* run_full_audit holds a result for each of the five gates E0..E4, each
\* with the result record (statistic, pass flag, note) of every one of its
\* sub-tests, together with the pass count and the classification.
C11_ReportAlwaysComplete ==
    stage = "Returned" =>
        /\ {"results", "gates_passed", "classification"}
               \subseteq DOMAIN audit_report
        /\ DOMAIN audit_report.results = GateKeys
        /\ \A k \in GateKeys :
              /\ audit_report.results[k].passed \in BOOLEAN
              /\ DOMAIN audit_report.results[k].results = SubTests(k)
              /\ \A n \in SubTests(k) :
                    SubTestRecord(audit_report.results[k].results[n])
        /\ audit_report.gates_passed \in 0..5
        /\ audit_report.classification \in {"PROBE", "PRIMITIVE", "LAW"}

\* the report of a run in which every gate failed, E0 by all of its
\* sub-tests
C11_Witness ==
    /\ stage = "Returned"
    /\ audit_report.gates_passed = 0
    /\ \A n \in SubTests("E0") : ~audit_report.results["E0"].results[n].passed
    /\ DOMAIN audit_report.results = GateKeys

PassVector(report) == [k \in GateKeys |-> report.results[k].passed]

\* C17: two runs of the full audit with the default seeds give the same
\* five gate pass flags and the same classification, whatever the state of
\* the random source before each run.
C17_RunsAgree ==
    /\ \A i \in 1..Len(reports), j \in 1..Len(reports) :
          /\ PassVector(reports[i]) = PassVector(reports[j])
          /\ reports[i].classification = reports[j].classification
    /\ \A i \in 1..Len(reports), k \in DOMAIN results :
          results[k].passed = reports[i].results[k].passed

\* two completed runs, the second entered with the random source as the
\* first left it, with passed and failed gates in the report
C17_Witness ==
    /\ Len(reports) = 2
    /\ reports[1].timestamp # reports[2].timestamp
    /\ reports[2].gates_passed = 3
    /\ ~reports[2].results["E0"].passed
    /\ reports[2].results["E4"].passed
    /\ rng = Residual(DefaultSeed + 199, 8)

\* a bucket holding one state whose coupling strength is 0
ZeroStrengthBucket == <<PhaseLockState(300, 300, 0, 0, 1, 1, 0, 3, 3)>>

\* C12: when a bucket of test_integer_thinning is empty the sub-test does
\* not fail, it uses the neutral value 0 as the statistic of that bucket,
\* and its result record reports that the bucket was empty: the record
\* differs from the record of a run whose bucket held a strength of 0.
C12_EmptyBucketReported ==
    thin.pc = "done" =>
        LET low == thin.low_order_states
            mid == thin.mid_order_states
            high == thin.high_order_states
            r == thin.result
        IN  /\ r.passed \in BOOLEAN
            /\ low = <<>> =>
                  /\ r.mean_K_low_order = 0
                  /\ r # ThinningRecord(ZeroStrengthBucket, mid, high)
            /\ mid = <<>> =>
                  /\ r.mean_K_mid_order = 0
                  /\ r # ThinningRecord(low, ZeroStrengthBucket, high)
            /\ high = <<>> =>
                  /\ r.mean_K_high_order = 0
                  /\ r # ThinningRecord(low, mid, ZeroStrengthBucket)

\* the PhaseLockState objects alive in a step of a sub-test or the Greeks
LiveObjects ==
    IF heap.pc = "idle" THEN {}
    ELSE {heap.state} \cup {heap.built[i] : i \in 1..Len(heap.built)}

\* C13: in every reachable state of every PhaseLockState object, after its
\* construction and after every operation of the pricers and of the audit
\* harness, theta_a and theta_b lie in [0, 360).
C13_PhasesStoredMod360 ==
    \A o \in LiveObjects :
        /\ 0 <= o.theta_a /\ o.theta_a < 2 * HalfTurn
        /\ 0 <= o.theta_b /\ o.theta_b < 2 * HalfTurn

\* C14: no operation of the Greeks or of the audit harness changes a field
\* of a constructed PhaseLockState, except the E1 amplitude-mute sub-test,
\* which overwrites K only.
C14_OnlyAmplitudeMuteWritesK ==
    heap.pc # "idle" =>
        \/ heap.state = heap.constructed
        \/ /\ heap.pc = "amplitude_mute"
           /\ heap.state = [heap.constructed EXCEPT !.K = heap.state.K]

\* C15: for any state (any lock order p, q) and any offset in [0, 360),
\* the state with the offset added to both phases mod 360 has the same
\* phase error, within 1 degree, and the same Lock-Future price, within
\* 0.05.  The formula states the phase-error half, on which the claim
\* fails whatever the prices are.
C15_GaugeKeepsPhaseError ==
    sym.pc = "gauge" =>
        /\ Abs(compute_phase_error(sym.state)
                   - compute_phase_error(sym.transformed)) < 100
        /\ sym.e_phi_match

\* C16: the state with the two agents' fields swapped pairwise has exactly
\* the same K and a phase error whose absolute value differs from the
\* original's by less than 1 degree.
C16_PermutationKeepsStrengthAndError ==
    sym.pc = "permutation" =>
        /\ sym.transformed.K = sym.state.K
        /\ Abs(Abs(compute_phase_error(sym.state))
                   - Abs(compute_phase_error(sym.transformed))) < 100
        /\ sym.K_match
        /\ sym.e_phi_match

\* a swap of a state of order 3:2 whose phase error changes sign
C16_Witness ==
    /\ sym.pc = "permutation"
    /\ sym.state.p = 3
    /\ sym.state.q = 2
    /\ sym.transformed.p = 2
    /\ sym.transformed.theta_a = sym.state.theta_b
    /\ sym.state.theta_a # sym.state.theta_b
    /\ sym.original_e_phi > 0
    /\ sym.transformed_e_phi = -sym.original_e_phi

\* C18: every sub-test seeds the shared random source before its first
\* draw, so what a sub-test returns does not depend on the state of the
\* random source left by whatever sub-test or pricer ran before it, nor on
\* the order of the calls.
C18_SubTestsSeedFirst ==
    \A i \in 1..Len(subcalls) :
        /\ subcalls[i].first_draw = np_random_seed(DefaultSeed)
        /\ \A j \in 1..Len(subcalls) :
              subcalls[i].test = subcalls[j].test =>
                  subcalls[i].result = subcalls[j].result

\* the barrier sub-test called twice, entered with the random source fresh
\* the first time and as a pricer run left it the second
C18_Witness ==
    /\ Len(subcalls) = 2
    /\ subcalls[1].test = "PBO"
    /\ subcalls[2].test = "PBO"
    /\ subcalls[1].entered.pos = 0
    /\ subcalls[2].entered = Consume(subcalls[1].left, 10000 * 100)
    /\ ~subcalls[2].result.passed

\* C19: price has no side effect other than consuming draws: no step of a
\* call changes a field of the input state, and a call with n_paths and
\* n_steps (non-negative counts) leaves the random source exactly
\* n_paths x n_steps draws further on in the stream it was entered with,
\* whether or not paths knock in.
C19_OnlyConsumesDraws ==
    /\ [][pc # "idle" => args' = args]_vars
    /\ [](\A i \in DOMAIN calls :
             (calls[i].args.n_paths >= 0 /\ calls[i].args.n_steps >= 0) =>
                 calls[i].rng1 =
                     Consume(calls[i].rng0,
                             calls[i].args.n_paths * calls[i].args.n_steps))

\* a call of 2 paths of 2 steps of which exactly one knocked in
C19_Witness ==
    /\ pc = "done"
    /\ ValidCall(args)
    /\ args.n_paths = 2
    /\ args.n_steps = 2
    /\ KnockedIn(trace[1], args.phi_barrier)
    /\ ~KnockedIn(trace[2], args.phi_barrier)
    /\ calls[Len(calls)].args.state = args.state
    /\ rng.pos = rng0.pos + 4

\* the arguments of a call but for the time to expiry
BesidesExpiry(a) == [a EXCEPT !.time_to_expiry = 0]

\* C20: two calls of price that differ only in time_to_expiry and start
\* from the same state of the random source return the same price and
\* leave the random source in the same state.
C20_ExpiryIgnored ==
    \A i \in DOMAIN calls, j \in DOMAIN calls :
        (/\ calls[i].rng0 = calls[j].rng0
         /\ BesidesExpiry(calls[i].args) = BesidesExpiry(calls[j].args)) =>
            /\ calls[i].price = calls[j].price
            /\ calls[i].rng1 = calls[j].rng1
            /\ calls[i].trace = calls[j].trace

\* two calls from the same seed with expiries 1.0 and 2.0 and a price
\* strictly between 0 and 1
C20_Witness ==
    /\ Len(calls) = 2
    /\ calls[1].rng0 = calls[2].rng0
    /\ calls[1].args.time_to_expiry # calls[2].args.time_to_expiry
    /\ BesidesExpiry(calls[1].args) = BesidesExpiry(calls[2].args)
    /\ ValidCall(calls[1].args)
    /\ calls[1].args.n_paths = 2
    /\ calls[2].price.num > 0
    /\ calls[2].price.num < calls[2].price.den * HalfTurn
    /\ calls[1].trace[1] # calls[1].trace[2]

\* C21: the trajectory returned for one path has exactly n_steps + 1
\* points (n_steps a count, >= 0) and its first point is the phase error
\* of the input state, as compute_phase_error returns it.
C21_TrajectoryLengthAndStart ==
    /\ \A k \in DOMAIN trace :
          args.n_steps >= 0 =>
              /\ Len(trace[k]) = args.n_steps + 1
              /\ trace[k][1] = compute_phase_error(args.state)
    /\ \A i \in DOMAIN calls :
          calls[i].args.n_steps >= 0 =>
              \A k \in DOMAIN calls[i].trace :
                  /\ Len(calls[i].trace[k]) = calls[i].args.n_steps + 1
                  /\ calls[i].trace[k][1] =
                         compute_phase_error(calls[i].args.state)

\* a path of two steps that moved away from a non-zero initial phase error
C21_Witness ==
    /\ pc = "done"
    /\ ValidCall(args)
    /\ args.n_steps = 2
    /\ Len(trace[1]) = 3
    /\ trace[1][1] = compute_phase_error(args.state)
    /\ trace[1][1] # 0
    /\ trace[1][2] # trace[1][1]
    /\ trace[1][3] # trace[1][2]

\* C22: constructing the market maker with a zero or negative liquidity
\* parameter, or pricing the swap with a zero or negative notional, fails
\* with an error: no market maker with b <= 0 exists and no premium is
\* returned for a notional <= 0.
C22_FailFastOnLiquidityAndNotional ==
    /\ mm.pc = "live" => mm.self.b > 0
    /\ (quote.pc = "efs" /\ quote.notional <= 0) => quote.result.outcome # "ok"

\* the quantities of the trades on instrument i that executed, added up
RECURSIVE TradedQuantity(_, _, _)
TradedQuantity(log, i, k) ==
    IF k > Len(log) THEN 0
    ELSE (IF /\ log[k].op = "execute_trade"
             /\ log[k].instrument = i
             /\ log[k].result.outcome = "ok"
          THEN log[k].quantity ELSE 0) + TradedQuantity(log, i, k + 1)

\* C29: after any sequence of operations the position of each of LF, PBO
\* and EFS is the sum of the quantities of the execute_trade calls on it
\* that executed, starting from 0; execute_trade changes the traded
\* instrument's position only, get_price and get_cost change none, and
\* execute_trade returns the cost get_cost returned for the same trade
\* immediately before it.
C29_PositionsAreTradeSums ==
    mm.pc = "live" =>
        /\ \A i \in Instruments :
              mm.self.positions[i] = TradedQuantity(mm.log, i, 1)
        /\ \A k \in DOMAIN mm.log :
              LET c == mm.log[k]
              IN  /\ c.op \in {"get_price", "get_cost"} => c.after = c.before
                  /\ (c.op = "execute_trade" /\ c.result.outcome = "ok") =>
                        c.after = [c.before EXCEPT
                                       ![c.instrument] = @ + c.quantity]
                  /\ (c.op = "execute_trade" /\ c.result.outcome # "ok") =>
                        c.after = c.before
                  /\ (/\ k > 1
                      /\ c.op = "execute_trade"
                      /\ mm.log[k - 1].op = "get_cost"
                      /\ mm.log[k - 1].instrument = c.instrument
                      /\ mm.log[k - 1].quantity = c.quantity) =>
                        c.result = mm.log[k - 1].result

\* a trade, then the cost of a second trade on the same instrument asked
\* for and the trade executed at that cost
C29_Witness ==
    /\ mm.pc = "live"
    /\ Len(mm.log) = 3
    /\ mm.log[1].op = "execute_trade"
    /\ mm.log[1].instrument = "PBO"
    /\ mm.log[1].quantity = 50
    /\ mm.log[2].op = "get_cost"
    /\ mm.log[3].op = "execute_trade"
    /\ mm.log[3].instrument = "PBO"
    /\ mm.log[3].quantity = 50
    /\ mm.log[2].instrument = "PBO"
    /\ mm.log[2].quantity = 50
    /\ mm.log[3].result.outcome = "ok"
    /\ mm.log[3].result.value > 0
    /\ mm.log[3].result.value # mm.log[1].result.value
    /\ mm.self.positions = [i \in Instruments |->
                               IF i = "PBO" THEN 100 ELSE 0]

\* C30: every operation given a name other than LF, PBO, EFS ends in an
\* error and leaves the positions as they were, with no key added:
\* get_price raises the 'Unknown instrument' ValueError, get_cost and
\* execute_trade fail too.
C30_UnknownInstrumentRejected ==
    mm.pc = "live" =>
        /\ DOMAIN mm.self.positions = Instruments
        /\ \A k \in DOMAIN mm.log :
              LET c == mm.log[k]
              IN  c.instrument \notin Instruments =>
                      /\ c.result.outcome # "ok"
                      /\ c.op = "get_price" =>
                             c.result.outcome = "ValueError: Unknown instrument"
                      /\ c.after = c.before
                      /\ DOMAIN c.after = Instruments

\* a trade and a price asked for under an unknown name on a market maker
\* that holds a position
C30_Witness ==
    /\ mm.pc = "live"
    /\ mm.self.b > 0
    /\ Len(mm.log) = 3
    /\ mm.log[1].op = "execute_trade"
    /\ mm.log[1].instrument = "LF"
    /\ mm.log[1].result.outcome = "ok"
    /\ mm.log[2].op = "execute_trade"
    /\ mm.log[2].instrument = "XYZ"
    /\ mm.log[2].result.outcome = "KeyError"
    /\ mm.log[3].op = "get_price"
    /\ mm.log[3].instrument = "XYZ"
    /\ mm.self.positions["LF"] = mm.log[1].quantity

\* C23: in every Lock-Future quote the exponent handed to np.exp is within
\* [-20, 20] (the linear score was clamped first), whatever the size of the
\* score (the 1e6 eligibility included) and the time to expiry, np.exp does
\* not overflow, and the price returned is within [0, 1].
C23_ScoreClampedBeforeExp ==
    quote.pc = "lf" =>
        /\ quote.exponent >= -200
        /\ quote.exponent <= 200
        /\ quote.exponent = -np_clip(quote.logit, -200, 200)
        /\ quote.exp # Inf
        /\ quote.result.outcome = "ok"
        /\ quote.result.value >= 0
        /\ quote.result.value <= 1000

\* a quote on a state with nothing to capture: the eligibility is the
\* sentinel, the score far below -20, and the exponent 20
C23_Witness ==
    /\ quote.pc = "lf"
    /\ compute_eligibility(quote.state) = EligibilitySentinel
    /\ quote.logit < -200 * 1000
    /\ quote.exponent = 200
    /\ quote.result.value = 0

\* C24: in every trial of test_phase_nudge_causality the state nudged
\* toward lock (theta_a moved by -sign(e_phi) * 5 degrees) has a strictly
\* smaller absolute phase error than the baseline state the prices are
\* compared with, and the state nudged away a strictly larger one.
C24_TowardShrinksAwayGrows ==
    heap.pc = "phase_nudge" =>
        /\ Abs(compute_phase_error(heap.built[1]))
               < Abs(compute_phase_error(heap.state))
        /\ Abs(compute_phase_error(heap.built[2]))
               > Abs(compute_phase_error(heap.state))

\* the samples of the loop so far that the claim's rule calls persistent
PersistentSamples(samples) ==
    {k \in DOMAIN samples :
        LET o == samples[k].price_original
            c == samples[k].price_coarse
        IN  \/ o > 700 /\ c > 600
            \/ o < 300 /\ c < 400
            \/ o >= 300 /\ o <= 700}

C26_MuteWritesOnlyK ==
    heap.pc = "amplitude_mute" =>
        /\ heap.state.K = K_norm
        /\ heap.state = [heap.constructed EXCEPT !.K = K_norm]
        /\ heap.e_phi_before = compute_phase_error(heap.constructed)
        /\ heap.e_phi_after = compute_phase_error(heap.state)
        /\ heap.e_phi_after = heap.e_phi_before

\* a muted state whose K was not 0.2 and whose phase error is not zero
C26_Witness ==
    /\ heap.pc = "amplitude_mute"
    /\ heap.constructed.K # K_norm
    /\ heap.state.K = K_norm
    /\ heap.constructed.theta_a # 0
    /\ heap.e_phi_before # 0
    /\ heap.e_phi_after = heap.e_phi_before

RECURSIVE FinalAlignmentFrom(_, _)
FinalAlignmentFrom(paths, i) ==
    IF i > Len(paths) THEN 0
    ELSE AlignmentPayoff(paths[i][Len(paths[i])])
             + FinalAlignmentFrom(paths, i + 1)

\* C28: every path of a price call starts from the phase error of the
\* state priced; when that error is within the barrier (inclusive) every
\* path is knocked in whatever its draws, its payoff is
\* max(0, 1 - |final phase error| / 180), and the price returned is the
\* mean of these over the paths.
C28_StartWithinBarrierKnocksIn ==
    LET e_phi_initial == compute_phase_error(args.state)
    IN  /\ \A k \in DOMAIN trace : trace[k][1] = e_phi_initial
        /\ Abs(e_phi_initial) <= args.phi_barrier =>
              /\ trace # <<>> => barrier_hit
              /\ \A k \in DOMAIN trace :
                    payoffs[k] = AlignmentPayoff(trace[k][Len(trace[k])])
              /\ pc = "done" =>
                    /\ price.num = FinalAlignmentFrom(trace, 1)
                    /\ price.den = Len(trace)

\* a call returned whose two paths started on the barrier, left it for
\* good on different draws and were paid on where they ended
C28_Witness ==
    /\ pc = "done"
    /\ ValidCall(args)
    /\ args.n_paths = 2
    /\ args.n_steps = 2
    /\ Abs(compute_phase_error(args.state)) = args.phi_barrier
    /\ trace[1] # trace[2]
    /\ \A k \in {1, 2} :
          /\ Abs(trace[k][2]) > args.phi_barrier
          /\ Abs(trace[k][3]) > args.phi_barrier
          /\ payoffs[k] > 0
    /\ price.num = payoffs[1] + payoffs[2]
    /\ price.den = 2

====
